---- MODULE Spec2Model ----
(***************************************************************************)
(* A model of astrbot_plugin_memory_reboot (src/main.py): the per-group    *)
(* message store (memory cache plus day partitions on disk), the           *)
(* similarity matchers and the decision pipeline of on_group_message.      *)
(*                                                                         *)
(* Conventions                                                             *)
(*   - Python None and the empty list / empty string are both modelled by  *)
(*     the empty sequence <<>>: every test the code applies to these       *)
(*     fields (`if embedding`, `if not emb`, `if image_hash`) treats them  *)
(*     alike.                                                              *)
(*   - A similarity is a float in the code; here it is the integer         *)
(*     floor(SimScale * similarity).                                       *)
(*   - Time is whole seconds; the calendar day of a timestamp is           *)
(*     timestamp \div 86400 (local time zone = UTC).                       *)
(*   - Python list indices are 0-based, the model's are 1-based; the       *)
(*     index -1 ("none") of the code is 0 here.                            *)
(***************************************************************************)
EXTENDS Integers, Sequences, FiniteSets, TLC

(***************************************************************************)
(* Bounds of the model                                                     *)
(***************************************************************************)
\* messages the host delivers in one run
MaxMsgs == 2
\* clock advances in one run
MaxTicks == 1
\* message pipelines suspended at an external call at the same time
MaxInFlight == 2
\* embedding methods of a provider
MaxMethods == 2
\* messages in a run of the specification with fairness
MaxLiveMsgs == 1
\* store operations in one run of the store specification
MaxOps == 5

(***************************************************************************)
(* Program constants and configuration                                     *)
(***************************************************************************)
DaySeconds == 86400
DEFAULT_COOLDOWN_SECONDS == 3600
DEFAULT_MIN_UNIQUE_SENDERS == 3
\* batch size of _append_message: a write every 10th record of a day
BatchSize == 10
\* config "data_retention_days" (default 7); the model runs with 1 day
data_retention_days == 1
\* similarities are scaled by SimScale: 0.95 is 950, 0.90 is 900
SimScale == 1000
DEFAULT_SIMILARITY_THRESHOLD == 950
DEFAULT_IMAGE_HASH_THRESHOLD == 900

Groups == {"g1"}
Senders == {"A", "C"}
\* what the embedding provider can return: two vectors of similarity 0.707
Embeddings == {<<1, 0>>, <<1, 1>>}
\* image hashes (strings of hex digits, a digit is 0..15): 12-bit hashes
ImageHashes == {<<0, 0, 0>>, <<15, 15, 15>>}
\* the fingerprints the matchers are called with on their own: also a vector
\* orthogonal to <<1, 0>> and one opposite to it, and a hash between the two
Vectors == Embeddings \cup {<<0, 1>>, << -1, 0>>}
Hashes == ImageHashes \cup {<<15, 15, 0>>}
\* the amounts by which the clock advances between two steps
TickSteps == {DEFAULT_COOLDOWN_SECONDS - 1, DaySeconds}

Msgs == 1..MaxMsgs

(***************************************************************************)
(* Records                                                                 *)
(***************************************************************************)
\* the dict built at on_group_message (msg = {...}); sender_name and content
\* are carried along unchanged by every operation and are left out
Record(id, sender_id, timestamp, embedding, has_image, cached_image, image_hash) ==
    [id |-> id, sender_id |-> sender_id, timestamp |-> timestamp,
     embedding |-> embedding, has_image |-> has_image,
     cached_image |-> cached_image, image_hash |-> image_hash]

\* "no record" (Python None where a record is expected)
NoRecord == Record(0, "", 0, <<>>, FALSE, FALSE, <<>>)

\* datetime.fromtimestamp(ts).strftime("%Y-%m-%d"): the calendar day
DateStr(ts) == ts \div DaySeconds

RECURSIVE SumSeq(_)
SumSeq(s) == IF s = <<>> THEN 0 ELSE Head(s) + SumSeq(Tail(s))

(***************************************************************************)
(* Similarity                                                              *)
(***************************************************************************)
Dot(a, b) == SumSeq([i \in 1..Len(a) |-> a[i] * b[i]])

\* the largest k with k * k * nn <= sq, for sq <= SimScale * SimScale * nn
FloorRoot(nn, sq) ==
    CHOOSE k \in 0..SimScale : k * k * nn <= sq /\ (k + 1) * (k + 1) * nn > sq

\* floor(SimScale * value) for |value| = q / SimScale rounded down, q the
\* floor root: the epsilon of the code makes a value that is an exact
\* multiple of 1 / SimScale fall just below it
BelowExact(q, nn, sq, positive) ==
    IF positive THEN (IF q * q * nn = sq THEN q - 1 ELSE q)
    ELSE (IF q * q * nn = sq THEN 0 - q ELSE 0 - (q + 1))

\* floor(SimScale * d / (sqrt(nn) + 1e-9)) for a dot product d # 0 and the
\* product nn of the squared norms
ScaledQuotient(d, nn) ==
    BelowExact(FloorRoot(nn, SimScale * SimScale * d * d), nn,
               SimScale * SimScale * d * d, d > 0)

\* _cosine_similarity: dot / (|v1| * |v2| + 1e-9), 0.0 for an empty vector or
\* unequal dimensions
CosineSimilarity(v1, v2) ==
    IF v1 = <<>> \/ v2 = <<>> \/ Len(v1) # Len(v2) THEN 0
    ELSE IF Dot(v1, v2) = 0 THEN 0
    ELSE ScaledQuotient(Dot(v1, v2), Dot(v1, v1) * Dot(v2, v2))

\* A hash is a string, modelled as the sequence of its characters: a hex
\* digit is its value 0..15, and two more characters stand for the others,
\* the underscore and a letter that is no hex digit ("g")
HexDigits == 0..15
Underscore == 16
NotHex == 17

\* int(h, 16) returns for the string h: all characters are hex digits or
\* single underscores between two digits (any other string of the
\* characters above raises ValueError)
IntParses(h) ==
    /\ h # <<>>
    /\ \A i \in 1..Len(h) :
          \/ h[i] \in HexDigits
          \/ /\ h[i] = Underscore
             /\ 1 < i /\ i < Len(h)
             /\ h[i - 1] \in HexDigits /\ h[i + 1] \in HexDigits

\* int(h, 16) for a string that parses: the underscores are left out
RECURSIVE IntValue(_)
IntValue(h) ==
    IF h = <<>> THEN 0
    ELSE IF h[Len(h)] = Underscore THEN IntValue(SubSeq(h, 1, Len(h) - 1))
    ELSE 16 * IntValue(SubSeq(h, 1, Len(h) - 1)) + h[Len(h)]

\* bin(n)[2:].zfill(width), for 0 <= n < 2^width: character i of the string
Bin(n, width) == [i \in 1..width |-> (n \div (2^(width - i))) % 2]

\* faulty variant of HashSimilarity: the hex digits are compared, not the bits
HashSimilarityByDigit(hash1, hash2) ==
    IF hash1 = <<>> \/ hash2 = <<>> \/ Len(hash1) # Len(hash2) THEN 0
    ELSE IF ~IntParses(hash1) \/ ~IntParses(hash2) THEN 0
    ELSE LET diff == Cardinality({i \in 1..Len(hash1) : hash1[i] # hash2[i]})
         IN (SimScale * (Len(hash1) - diff)) \div Len(hash1)

\* _hash_similarity: 1 - diff / len(bin1) for the two binary strings, 0.0 for
\* an empty hash, unequal lengths or a string that int() rejects
HashSimilarity(hash1, hash2) ==
    IF hash1 = <<>> \/ hash2 = <<>> \/ Len(hash1) # Len(hash2) THEN 0
    ELSE IF ~IntParses(hash1) \/ ~IntParses(hash2) THEN 0
    ELSE LET bits == Len(hash1) * 4
             bin1 == Bin(IntValue(hash1), bits)
             bin2 == Bin(IntValue(hash2), bits)
             diff == Cardinality({i \in 1..bits : bin1[i] # bin2[i]})
         IN (SimScale * (bits - diff)) \div bits

\* The two similarities on the fingerprints of the model, computed once: the
\* matchers below look the values up here.
CosineTable ==
    {<<v1, v2, CosineSimilarity(v1, v2)>> : v1 \in Vectors, v2 \in Vectors}
HashTable ==
    {<<h1, h2, HashSimilarity(h1, h2)>> : h1 \in Hashes, h2 \in Hashes}

\* self._cosine_similarity(v1, v2) as called by the matchers
Cosine(v1, v2) ==
    IF v1 \in Vectors /\ v2 \in Vectors THEN (CHOOSE t \in CosineTable : t[1] = v1 /\ t[2] = v2)[3]
    ELSE CosineSimilarity(v1, v2)

\* self._hash_similarity(hash1, hash2) as called by the matchers
HashSim(hash1, hash2) ==
    IF hash1 \in Hashes /\ hash2 \in Hashes THEN (CHOOSE t \in HashTable : t[1] = hash1 /\ t[2] = hash2)[3]
    ELSE HashSimilarity(hash1, hash2)

(***************************************************************************)
(* Match engine                                                            *)
(***************************************************************************)
\* faulty variant of SearchRange: the most recent records are not excluded
SearchRangeWhole(messages, exclude_recent) == Len(messages)

\* search_range of _find_best_match / _find_similar_image
SearchRange(messages, exclude_recent) ==
    IF exclude_recent > 0 THEN Len(messages) - exclude_recent ELSE Len(messages)

NoMatch == [best_sim |-> 0, best_msg |-> NoRecord, best_idx |-> 0]

\* the loop of _find_best_match from index i on, acc the running best
RECURSIVE FindBestMatchFrom(_, _, _, _, _, _)
FindBestMatchFrom(messages, embedding, threshold, search_range, i, acc) ==
    IF i > search_range THEN acc
    ELSE LET msg == messages[i]
             emb == msg.embedding
         IN IF emb = <<>> \/ Len(emb) # Len(embedding)
            THEN FindBestMatchFrom(messages, embedding, threshold, search_range, i + 1, acc)
            ELSE LET sim == Cosine(embedding, emb)
                     nxt == IF sim > acc.best_sim
                            THEN IF sim >= threshold
                                 THEN [best_sim |-> sim, best_msg |-> msg, best_idx |-> i]
                                 ELSE [acc EXCEPT !.best_sim = sim]
                            ELSE acc
                 IN FindBestMatchFrom(messages, embedding, threshold, search_range, i + 1, nxt)

\* _find_best_match(messages, embedding, threshold, exclude_recent)
FindBestMatch(messages, embedding, threshold, exclude_recent) ==
    FindBestMatchFrom(messages, embedding, threshold,
                      SearchRange(messages, exclude_recent), 1, NoMatch)

\* the loop of _find_similar_image from index i on
RECURSIVE FindSimilarImageFrom(_, _, _, _, _, _)
FindSimilarImageFrom(messages, current_hash, threshold, search_range, i, acc) ==
    IF i > search_range THEN acc
    ELSE LET msg == messages[i]
             msg_hash == msg.image_hash
         IN IF msg_hash = <<>>
            THEN FindSimilarImageFrom(messages, current_hash, threshold, search_range, i + 1, acc)
            ELSE LET sim == HashSim(current_hash, msg_hash)
                     nxt == IF sim > acc.best_sim
                            THEN IF sim >= threshold
                                 THEN [best_sim |-> sim, best_msg |-> msg, best_idx |-> i]
                                 ELSE [acc EXCEPT !.best_sim = sim]
                            ELSE acc
                 IN FindSimilarImageFrom(messages, current_hash, threshold, search_range, i + 1, nxt)

\* _find_similar_image(messages, current_hash, threshold, exclude_recent)
FindSimilarImage(messages, current_hash, threshold, exclude_recent) ==
    FindSimilarImageFrom(messages, current_hash, threshold,
                         SearchRange(messages, exclude_recent), 1, NoMatch)

\* _count_unique_senders: the distinct non-empty sender_ids of the records
\* whose embedding reaches the threshold
UniqueSenders(messages, embedding, threshold) ==
    {messages[i].sender_id : i \in
        {j \in 1..Len(messages) :
            /\ messages[j].embedding # <<>>
            /\ Len(messages[j].embedding) = Len(embedding)
            /\ Cosine(embedding, messages[j].embedding) >= threshold
            /\ messages[j].sender_id # ""}}

CountUniqueSenders(messages, embedding, threshold) ==
    Cardinality(UniqueSenders(messages, embedding, threshold))

\* _count_unique_senders_by_hash
UniqueSendersByHash(messages, image_hash, threshold) ==
    {messages[i].sender_id : i \in
        {j \in 1..Len(messages) :
            /\ messages[j].image_hash # <<>>
            /\ HashSim(image_hash, messages[j].image_hash) >= threshold
            /\ messages[j].sender_id # ""}}

CountUniqueSendersByHash(messages, image_hash, threshold) ==
    Cardinality(UniqueSendersByHash(messages, image_hash, threshold))

(***************************************************************************)
(* Conversation store: memory cache and day partitions on disk             *)
(***************************************************************************)
\* a cache entry {"messages": [...], "last_load": t}; present = FALSE models
\* "group_id not in self._cache"
NoEntry == [present |-> FALSE, messages |-> <<>>, last_load |-> 0]
Entry(messages, last_load) ==
    [present |-> TRUE, messages |-> messages, last_load |-> last_load]

\* json.dump of one record: a JSON object with the dict's keys; None becomes
\* null, a bool becomes true / false, a list an array, a str a string
JsonDump(m) ==
    [id |-> m.id, sender_id |-> m.sender_id, timestamp |-> m.timestamp,
     embedding |-> IF m.embedding = <<>> THEN <<"null">> ELSE <<"array", m.embedding>>,
     has_image |-> IF m.has_image THEN "true" ELSE "false",
     cached_image |-> IF m.cached_image THEN "string" ELSE "null",
     image_hash |-> IF m.image_hash = <<>> THEN <<"null">> ELSE <<"string", m.image_hash>>]

\* json.load of one JSON object
JsonLoad(o) ==
    [id |-> o.id, sender_id |-> o.sender_id, timestamp |-> o.timestamp,
     embedding |-> IF o.embedding[1] = "array" THEN o.embedding[2] ELSE <<>>,
     has_image |-> (o.has_image = "true"),
     cached_image |-> (o.cached_image = "string"),
     image_hash |-> IF o.image_hash[1] = "string" THEN o.image_hash[2] ELSE <<>>]

JsonDumpAll(messages) == [i \in 1..Len(messages) |-> JsonDump(messages[i])]
JsonLoadAll(objects) == [i \in 1..Len(objects) |-> JsonLoad(objects[i])]

\* list.sort(key=timestamp): a stable sort, here by insertion from the left
RECURSIVE InsertByTimestamp(_, _)
InsertByTimestamp(sorted, m) ==
    IF sorted = <<>> THEN <<m>>
    ELSE IF sorted[Len(sorted)].timestamp <= m.timestamp THEN Append(sorted, m)
    ELSE Append(InsertByTimestamp(SubSeq(sorted, 1, Len(sorted) - 1), m),
                sorted[Len(sorted)])

RECURSIVE SortByTimestampFrom(_, _)
SortByTimestampFrom(messages, sorted) ==
    IF messages = <<>> THEN sorted
    ELSE SortByTimestampFrom(Tail(messages), InsertByTimestamp(sorted, Head(messages)))

SortByTimestamp(messages) == SortByTimestampFrom(messages, <<>>)

\* the records of a list that belong to one calendar day
DayMessages(messages, date_str) ==
    SelectSeq(messages, LAMBDA m : DateStr(m.timestamp) = date_str)

\* _write_daily_messages: the day's partition is replaced as a whole (a temp
\* file is written and renamed over it).  dsk is one group's directory: a
\* function from the days that have a partition to the partition's content.
WriteDailyMessages(dsk, date_str, messages) ==
    [d \in (DOMAIN dsk) \cup {date_str} |->
        IF d = date_str THEN JsonDumpAll(messages) ELSE dsk[d]]

\* the partitions of the days in `days` concatenated in ascending file name order
RECURSIVE ReadPartitions(_, _)
ReadPartitions(dsk, days) ==
    IF days = {} THEN <<>>
    ELSE LET first == CHOOSE d \in days : \A e \in days : d <= e
         IN JsonLoadAll(dsk[first]) \o ReadPartitions(dsk, days \ {first})

\* valid_dates of _load_messages_from_disk: today and the retention_days
\* days before it
ValidDates(t) == {DateStr(t) - i : i \in 0..data_retention_days}

\* _load_messages_from_disk: the new cache entry (its list is the value returned)
LoadMessagesFromDisk(dsk, t) ==
    LET all_messages == ReadPartitions(dsk, (DOMAIN dsk) \cap ValidDates(t))
    IN Entry(SortByTimestamp(all_messages), t)

\* cutoff of the eviction at a day rollover
Cutoff(t) == t - data_retention_days * DaySeconds

\* faulty variant of LoadMessages: a record made exactly at the cutoff is kept
LoadMessagesKeepsCutoff(entry, dsk, t) ==
    IF entry.present
    THEN IF DateStr(entry.last_load) = DateStr(t)
         THEN entry
         ELSE Entry(SelectSeq(entry.messages, LAMBDA m : m.timestamp >= Cutoff(t)), t)
    ELSE LoadMessagesFromDisk(dsk, t)

\* faulty variant of LoadMessages: the eviction runs on every call that
\* finds a cache entry
LoadMessagesEvictsAlways(entry, dsk, t) ==
    IF entry.present
    THEN Entry(SelectSeq(entry.messages, LAMBDA m : m.timestamp > Cutoff(t)), t)
    ELSE LoadMessagesFromDisk(dsk, t)

\* _load_messages: the cache entry after the call (its messages are the value
\* returned) for the entry and directory before it, at time t
LoadMessages(entry, dsk, t) ==
    IF entry.present
    THEN IF DateStr(entry.last_load) = DateStr(t)
         THEN entry
         ELSE Entry(SelectSeq(entry.messages, LAMBDA m : m.timestamp > Cutoff(t)), t)
    ELSE LoadMessagesFromDisk(dsk, t)

\* whether _load_messages leaves the list object of the cache entry in place
\* (same-day hit) or binds a new list (eviction, load from disk)
LoadKeepsList(entry, t) ==
    entry.present /\ DateStr(entry.last_load) = DateStr(t)

\* faulty variant of ShouldWrite: only the first record of a day is written
ShouldWriteFirstOnly(today_messages) ==
    Len(today_messages) = 1

\* should_write of _append_message
ShouldWrite(today_messages) ==
    Len(today_messages) = 1 \/ Len(today_messages) % BatchSize = 0

\* _append_message: [entry, dsk] after appending `message` at time t
AppendMessage(entry, dsk, message, t) ==
    LET e0 == IF entry.present THEN entry ELSE Entry(<<>>, t)
        e1 == [e0 EXCEPT !.messages = Append(@, message)]
        today_str == DateStr(message.timestamp)
        today_messages == DayMessages(e1.messages, today_str)
    IN [entry |-> e1,
        dsk |-> IF ShouldWrite(today_messages)
                THEN WriteDailyMessages(dsk, today_str, today_messages)
                ELSE dsk]

\* _flush_cache: the directory after every cached day has been written
RECURSIVE FlushDays(_, _, _)
FlushDays(dsk, messages, days) ==
    IF days = {} THEN dsk
    ELSE LET date_str == CHOOSE d \in days : \A e \in days : d <= e
         IN FlushDays(WriteDailyMessages(dsk, date_str, DayMessages(messages, date_str)),
                      messages, days \ {date_str})

\* faulty variant of FlushCache: only the day of the newest record is written
FlushCacheNewestDay(entry, dsk) ==
    IF ~entry.present \/ entry.messages = <<>> THEN dsk
    ELSE FlushDays(dsk, entry.messages,
                   {DateStr(entry.messages[Len(entry.messages)].timestamp)})

FlushCache(entry, dsk) ==
    IF ~entry.present \/ entry.messages = <<>> THEN dsk
    ELSE FlushDays(dsk, entry.messages,
                   {DateStr(entry.messages[i].timestamp) : i \in 1..Len(entry.messages)})

(***************************************************************************)
(* The data directory as files: formats of older versions, unreadable      *)
(* files, failing writes                                                   *)
(***************************************************************************)
\* the content of a file that gzip or json cannot read (damaged, or written
\* in part); no record has the id of NoRecord
Garbage == <<JsonDump(NoRecord)>>
Readable(content) == content # Garbage

NoFile == [exists |-> FALSE, data |-> <<>>]
File(data) == [exists |-> TRUE, data |-> data]

\* what a group has besides its <day>.json.gz partitions:
\*   legacy  <data_dir>/<group>_messages.json, the store of the oldest versions
\*   bak     <data_dir>/<group>_messages.json.bak
\*   plain   day -> content of <group_dir>/<day>.json (uncompressed partition)
\*   tmp     the days with a <group_dir>/<day>.json.gz.tmp
NoFiles == [legacy |-> NoFile, bak |-> NoFile, plain |-> <<>>, tmp |-> {}]

Put(f, d, v) == [x \in (DOMAIN f) \cup {d} |-> IF x = d THEN v ELSE f[x]]
Drop(f, d) == [x \in (DOMAIN f) \ {d} |-> f[x]]

\* the calendar days of a list of JSON objects
DaysOf(objects) == {DateStr(objects[i].timestamp) : i \in 1..Len(objects)}

\* the partitions written by _migrate_legacy_data: one per day of the
\* single-file store, replacing what the day had (temp file, os.replace)
RECURSIVE WriteGrouped(_, _, _)
WriteGrouped(dsk, objects, days) ==
    IF days = {} THEN dsk
    ELSE LET date_str == CHOOSE d \in days : \A e \in days : d <= e
         IN WriteGrouped(Put(dsk, date_str,
                             SelectSeq(objects, LAMBDA o : DateStr(o.timestamp) = date_str)),
                         objects, days \ {date_str})

\* faulty variant of MigrateLegacyData: the single-file store is removed
\* after the migration
MigrateLegacyDataRemoves(fs, dsk, fault) ==
    IF ~fs.legacy.exists \/ ~Readable(fs.legacy.data) \/ fault = "mkdir"
    THEN [files |-> fs, dsk |-> dsk]
    ELSE IF fault = "migrate_write"
    THEN [files |-> [fs EXCEPT !.tmp = @ \cup {CHOOSE d \in DaysOf(fs.legacy.data) : TRUE}],
          dsk |-> dsk]
    ELSE [files |-> [fs EXCEPT !.legacy = NoFile],
          dsk |-> WriteGrouped(dsk, fs.legacy.data, DaysOf(fs.legacy.data))]

\* _migrate_legacy_data: [files, dsk] after the call.  Every failure is
\* caught and leaves the single-file store in place: it is unreadable, the
\* group directory cannot be made ("mkdir"), or a partition cannot be
\* written ("migrate_write", the temp file stays behind).
MigrateLegacyData(fs, dsk, fault) ==
    IF ~fs.legacy.exists \/ ~Readable(fs.legacy.data) \/ fault = "mkdir"
    THEN [files |-> fs, dsk |-> dsk]
    ELSE IF fault = "migrate_write"
    THEN [files |-> [fs EXCEPT !.tmp = @ \cup {CHOOSE d \in DaysOf(fs.legacy.data) : TRUE}],
          dsk |-> dsk]
    ELSE [files |-> [fs EXCEPT !.legacy = NoFile, !.bak = File(fs.legacy.data)],
          dsk |-> WriteGrouped(dsk, fs.legacy.data, DaysOf(fs.legacy.data))]

\* one day of the loop over sorted(os.listdir(group_dir)): <day>.json comes
\* before <day>.json.gz.  acc = [all_messages, dsk, plain]; listed_gz are
\* the days whose .json.gz was in the listing.
ScanDay(acc, d, listed_gz, t, fault) ==
    LET a1 == IF d \notin DOMAIN acc.plain THEN acc
              \* json.load of the uncompressed file raises
              ELSE IF ~Readable(acc.plain[d]) THEN acc
              \* the write of the .gz raises: the .gz is left as far as written
              ELSE IF fault = "compress_write"
              THEN [acc EXCEPT !.dsk = Put(@, d, Garbage)]
              \* os.remove raises: the .gz is complete, the day is not loaded
              ELSE IF fault = "remove"
              THEN [acc EXCEPT !.dsk = Put(@, d, acc.plain[d])]
              ELSE [acc EXCEPT !.dsk = Put(@, d, acc.plain[d]),
                               !.plain = Drop(@, d),
                               !.all_messages =
                                   IF d \in ValidDates(t)
                                   THEN @ \o JsonLoadAll(acc.plain[d]) ELSE @]
    IN IF d \in listed_gz /\ d \in ValidDates(t) /\ Readable(a1.dsk[d])
       THEN [a1 EXCEPT !.all_messages = @ \o JsonLoadAll(a1.dsk[d])]
       ELSE a1

RECURSIVE ScanDirectory(_, _, _, _, _)
ScanDirectory(acc, days, listed_gz, t, fault) ==
    IF days = {} THEN acc
    ELSE LET d == CHOOSE x \in days : \A e \in days : x <= e
         IN ScanDirectory(ScanDay(acc, d, listed_gz, t, fault), days \ {d},
                          listed_gz, t, fault)

\* the failures a load from disk can meet
LoadFaults == {"none", "mkdir", "listdir", "migrate_write", "compress_write", "remove"}

\* faulty variant of LoadMessagesFromDiskWith: the partitions of the days
\* behind the retention horizon are removed from the directory
LoadMessagesFromDiskPrunes(fs, dsk, t, fault) ==
    LET mig == MigrateLegacyData(fs, dsk, fault)
        scan == ScanDirectory([all_messages |-> <<>>, dsk |-> mig.dsk,
                               plain |-> mig.files.plain],
                              (DOMAIN mig.files.plain) \cup (DOMAIN mig.dsk),
                              DOMAIN mig.dsk, t, fault)
        kept == {d \in DOMAIN scan.dsk : d >= DateStr(t) - data_retention_days}
    IN IF fault = "mkdir"
       THEN [raised |-> TRUE, entry |-> NoEntry, files |-> mig.files, dsk |-> mig.dsk]
       ELSE IF fault = "listdir"
       THEN [raised |-> FALSE, entry |-> Entry(<<>>, t), files |-> mig.files,
             dsk |-> mig.dsk]
       ELSE [raised |-> FALSE, entry |-> Entry(SortByTimestamp(scan.all_messages), t),
             files |-> [mig.files EXCEPT !.plain = scan.plain],
             dsk |-> [d \in kept |-> scan.dsk[d]]]

\* _load_messages_from_disk with the files of older versions and one
\* failure: [raised, entry, files, dsk].  os.makedirs of _get_group_dir is
\* called outside every try block: its failure leaves the function.
LoadMessagesFromDiskWith(fs, dsk, t, fault) ==
    LET mig == MigrateLegacyData(fs, dsk, fault)
        scan == ScanDirectory([all_messages |-> <<>>, dsk |-> mig.dsk,
                               plain |-> mig.files.plain],
                              (DOMAIN mig.files.plain) \cup (DOMAIN mig.dsk),
                              DOMAIN mig.dsk, t, fault)
    IN IF fault = "mkdir"
       THEN [raised |-> TRUE, entry |-> NoEntry, files |-> mig.files, dsk |-> mig.dsk]
       ELSE IF fault = "listdir"
       THEN [raised |-> FALSE, entry |-> Entry(<<>>, t), files |-> mig.files,
             dsk |-> mig.dsk]
       ELSE [raised |-> FALSE, entry |-> Entry(SortByTimestamp(scan.all_messages), t),
             files |-> [mig.files EXCEPT !.plain = scan.plain], dsk |-> scan.dsk]

(***************************************************************************)
(* Decision pipeline: the pure parts of on_group_message                   *)
(***************************************************************************)
\* faulty variant of SelectMatch: the image match stands unless there is none
\* or the text-matched record is strictly older
SelectMatchImageFirst(embedding, emb_res, image_hash, img_res) ==
    LET emb_matched == embedding # <<>> /\ emb_res.best_msg # NoRecord
        img_matched == image_hash # <<>> /\ img_res.best_msg # NoRecord
        from_text == [matched_msg |-> emb_res.best_msg, matched_idx |-> emb_res.best_idx,
                      match_type |-> "embedding"]
        from_image == [matched_msg |-> img_res.best_msg, matched_idx |-> img_res.best_idx,
                       match_type |-> "image_hash"]
        none == [matched_msg |-> NoRecord, matched_idx |-> 0, match_type |-> "none"]
    IN IF emb_matched /\ ~img_matched THEN from_text
       ELSE IF emb_matched /\ img_matched
               /\ emb_res.best_msg.timestamp < img_res.best_msg.timestamp THEN from_text
       ELSE IF img_matched THEN from_image
       ELSE none

\* the match chosen from the text match and the image match (the two `if`
\* blocks after the matchers): the text match stands unless there is none or
\* the image-matched record is strictly older
SelectMatch(embedding, emb_res, image_hash, img_res) ==
    LET emb_matched == embedding # <<>> /\ emb_res.best_msg # NoRecord
        img_matched == image_hash # <<>> /\ img_res.best_msg # NoRecord
        from_text == [matched_msg |-> emb_res.best_msg, matched_idx |-> emb_res.best_idx,
                      match_type |-> "embedding"]
        from_image == [matched_msg |-> img_res.best_msg, matched_idx |-> img_res.best_idx,
                       match_type |-> "image_hash"]
        none == [matched_msg |-> NoRecord, matched_idx |-> 0, match_type |-> "none"]
    IN IF ~emb_matched /\ img_matched THEN from_image
       ELSE IF emb_matched /\ img_matched
               /\ img_res.best_msg.timestamp < emb_res.best_msg.timestamp THEN from_image
       ELSE IF emb_matched THEN from_text
       ELSE none

\* unique_count: the senders are counted over the list that holds the current
\* message too, by the fingerprint kind of the match
UniqueCount(messages_with_current, sel, embedding, image_hash, cfg) ==
    IF sel.match_type = "embedding" /\ embedding # <<>>
    THEN CountUniqueSenders(messages_with_current, embedding, cfg.similarity_threshold)
    ELSE IF sel.match_type = "image_hash" /\ image_hash # <<>>
    THEN CountUniqueSendersByHash(messages_with_current, image_hash, cfg.image_hash_threshold)
    ELSE 1

\* faulty variants of Gate: one test is missing or off by one
GateWithoutSelfRepost(sender_id, matched_msg, unique_count, msg_now, cfg) ==
    IF matched_msg = NoRecord THEN "no_match"
    ELSE IF unique_count < cfg.min_unique_senders THEN "sender_count"
    ELSE IF msg_now - matched_msg.timestamp < cfg.cooldown_seconds THEN "cooldown"
    ELSE "pass"

GateWithoutSenderCount(sender_id, matched_msg, unique_count, msg_now, cfg) ==
    IF matched_msg = NoRecord THEN "no_match"
    ELSE IF sender_id = matched_msg.sender_id THEN "self_repost"
    ELSE IF msg_now - matched_msg.timestamp < cfg.cooldown_seconds THEN "cooldown"
    ELSE "pass"

GateWithoutCooldown(sender_id, matched_msg, unique_count, msg_now, cfg) ==
    IF matched_msg = NoRecord THEN "no_match"
    ELSE IF sender_id = matched_msg.sender_id THEN "self_repost"
    ELSE IF unique_count < cfg.min_unique_senders THEN "sender_count"
    ELSE "pass"

GateCooldownInclusive(sender_id, matched_msg, unique_count, msg_now, cfg) ==
    IF matched_msg = NoRecord THEN "no_match"
    ELSE IF sender_id = matched_msg.sender_id THEN "self_repost"
    ELSE IF unique_count < cfg.min_unique_senders THEN "sender_count"
    ELSE IF msg_now - matched_msg.timestamp <= cfg.cooldown_seconds THEN "cooldown"
    ELSE "pass"

\* the gates between matching and judgment, in the order of the code; "pass"
\* when none of them returns
Gate(sender_id, matched_msg, unique_count, msg_now, cfg) ==
    IF matched_msg = NoRecord THEN "no_match"
    ELSE IF sender_id = matched_msg.sender_id THEN "self_repost"
    ELSE IF unique_count < cfg.min_unique_senders THEN "sender_count"
    ELSE IF msg_now - matched_msg.timestamp < cfg.cooldown_seconds THEN "cooldown"
    ELSE "pass"

\* matching and gates for the record msg against the loaded list `messages`
Decide(messages, msg, cfg) ==
    LET messages_with_current == Append(messages, msg)
        emb_res == IF msg.embedding # <<>>
                   THEN FindBestMatch(messages_with_current, msg.embedding,
                                      cfg.similarity_threshold, 1)
                   ELSE NoMatch
        img_res == IF msg.image_hash # <<>>
                   THEN FindSimilarImage(messages_with_current, msg.image_hash,
                                         cfg.image_hash_threshold, 1)
                   ELSE NoMatch
        sel == SelectMatch(msg.embedding, emb_res, msg.image_hash, img_res)
        unique_count == IF sel.matched_msg = NoRecord THEN 0
                        ELSE UniqueCount(messages_with_current, sel, msg.embedding,
                                         msg.image_hash, cfg)
    IN [messages |-> messages,
        matched_msg |-> sel.matched_msg, matched_idx |-> sel.matched_idx,
        match_type |-> sel.match_type, unique_count |-> unique_count,
        gate |-> Gate(msg.sender_id, sel.matched_msg, unique_count, msg.timestamp, cfg)]

\* what the judgment provider's call can produce.  The text is the response
\* after the ``` fence has been cut away; marker says whether it contains
\* "should_remind": true (case-insensitive)
JudgeResponses ==
    {[kind |-> "exception", value |-> "", marker |-> FALSE],
     [kind |-> "empty", value |-> "", marker |-> FALSE]}
    \cup {[kind |-> "json_object", value |-> v, marker |-> FALSE] :
            v \in {"true", "false", "missing", "null", "string"}}
    \cup {[kind |-> k, value |-> "", marker |-> b] :
            k \in {"json_other", "not_json"}, b \in BOOLEAN}

\* how a call of _judge_remind ended without a response
JudgeNote(kind) == [kind |-> kind, value |-> "", marker |-> FALSE]

\* faulty variant of JudgeRemind: a call that raises counts as consent
JudgeRemindFailOpen(response) ==
    CASE response.kind = "exception" -> "true"
      [] response.kind = "empty" -> "false"
      [] response.kind = "json_object" ->
            IF response.value = "missing" THEN "false" ELSE response.value
      [] OTHER -> IF response.marker THEN "true" ELSE "false"

\* the value _judge_remind returns for a response: "true" / "false" for the
\* Python bools, "null" for None, "string" for a non-empty string
JudgeRemind(response) ==
    CASE response.kind = "exception" -> "false"
      [] response.kind = "empty" -> "false"
      [] response.kind = "json_object" ->
            IF response.value = "missing" THEN "false" ELSE response.value
      [] OTHER -> IF response.marker THEN "true" ELSE "false"

\* faulty variant of Truthy: `if should_remind is not None`
TruthyNotNull(v) == v # "null"

\* Python truth value of what _judge_remind returned (`if should_remind:`)
Truthy(v) == v \in {"true", "string"}

(***************************************************************************)
(* State                                                                   *)
(***************************************************************************)
VARIABLES
    now,          \* time.time()
    ticks,        \* clock advances so far
    config,       \* self.config, fixed during a run
    cache,        \* self._cache: group -> cache entry
    disk,         \* group -> (day -> content of <day>.json.gz)
    pc,           \* message -> where its on_group_message task stands
    ev,           \* message -> the event being handled
    loc,          \* message -> local variables of its task
    out,          \* message -> what the task did (kept after it returned)
    appended,     \* group -> the records passed to _append_message, in order
    judge_calls,  \* message -> calls of _judge_remind
    reminders,    \* message -> reminder chains yielded to the host
    ops,          \* store operations so far (store specification)
    phase,        \* group -> how cache and disk stand (store specification)
    last,         \* the last store operation: what it returned, the cache
                  \* entry it found and the time it ran at
    held,         \* group -> the clock readings of tasks that have made their
                  \* record and not appended it yet (store specifications)
    files,        \* group -> the other files of the data directory: the
                  \* single-file store of old versions and its backup, the
                  \* uncompressed day partitions, the temp files left behind
    call          \* the last call of a matcher or similarity function with
                  \* its arguments and its result (function specifications)

vars == <<now, ticks, config, cache, disk, pc, ev, loc, out, appended,
          judge_calls, reminders, ops, phase, last, held,
          files, call>>

pipeline_vars == <<pc, ev, loc, out, judge_calls, reminders>>
store_vars == <<ops, phase, last, held, files, call>>

\* groups on the black list (config "blocked_groups")
BlockedGroups == {"gx"}

\* the text of a message: absent, shorter than min_text_length, fully matched
\* by an ignore_regex pattern, a command of another plugin, or none of these
TextKinds == {"none", "short", "ignored", "command", "normal"}

Configs ==
    {[enable_llm_judge |-> j, min_unique_senders |-> n,
      cooldown_seconds |-> DEFAULT_COOLDOWN_SECONDS,
      similarity_threshold |-> DEFAULT_SIMILARITY_THRESHOLD,
      image_hash_threshold |-> DEFAULT_IMAGE_HASH_THRESHOLD] :
        j \in BOOLEAN, n \in {DEFAULT_MIN_UNIQUE_SENDERS}}

\* _get_embedding: the configured provider id (empty when none is set), what
\* the lookup of the provider gives, and what each embedding method the
\* provider has does when called, in the order the code tries them
ProviderIds == {"", "p"}
Lookups == {"found", "none", "raises"}
MethodReplies ==
    {[raises |-> TRUE, result |-> <<>>], [raises |-> FALSE, result |-> <<>>]}
    \cup {[raises |-> FALSE, result |-> v] : v \in Embeddings}
MethodSeqs ==
    UNION {[1..n -> MethodReplies] : n \in 1..MaxMethods}
Providers == [lookup : Lookups, methods : MethodSeqs]

\* the loop over the provider's methods from method i on: the first result
\* that is not empty is returned, an exception goes on to the next method
RECURSIVE TryMethods(_, _)
TryMethods(methods, i) ==
    IF i > Len(methods) THEN [embedding |-> <<>>, why |-> "all_failed"]
    ELSE IF ~methods[i].raises /\ methods[i].result # <<>>
    THEN [embedding |-> methods[i].result, why |-> "ok"]
    ELSE TryMethods(methods, i + 1)

\* faulty variant of GetEmbedding: without a configured id the lookup is
\* made all the same and the provider it gives is called
GetEmbeddingWithoutIdCheck(provider_id, provider) ==
    IF provider.lookup = "raises"
    THEN [embedding |-> <<>>, called |-> FALSE,
          why |-> IF provider_id = "" THEN "no_provider_id" ELSE "lookup_raised"]
    ELSE IF provider.lookup = "none"
    THEN [embedding |-> <<>>, called |-> FALSE,
          why |-> IF provider_id = "" THEN "no_provider_id" ELSE "provider_not_found"]
    ELSE [embedding |-> TryMethods(provider.methods, 1).embedding, called |-> TRUE,
          why |-> IF provider_id = "" THEN "no_provider_id"
                  ELSE TryMethods(provider.methods, 1).why]

\* _get_embedding(text): the vector or None (the empty tuple), with the reason
\* and whether a method of the provider was called
GetEmbedding(provider_id, provider) ==
    IF provider_id = "" THEN [embedding |-> <<>>, why |-> "no_provider_id", called |-> FALSE]
    ELSE IF provider.lookup = "raises"
    THEN [embedding |-> <<>>, why |-> "lookup_raised", called |-> FALSE]
    ELSE IF provider.lookup = "none"
    THEN [embedding |-> <<>>, why |-> "provider_not_found", called |-> FALSE]
    ELSE TryMethods(provider.methods, 1) @@ [called |-> TRUE]

\* what _get_embedding can return, over every configuration and provider
EmbeddingResults ==
    {GetEmbedding(provider_id, provider) :
        provider_id \in ProviderIds, provider \in Providers}

\* what _cache_image returns: (None, None) or (path, hash)
DownloadResults ==
    {[cached_image |-> FALSE, image_hash |-> <<>>]}
    \cup {[cached_image |-> TRUE, image_hash |-> h] : h \in ImageHashes}

NoEvent == [group |-> "", sender_id |-> "", text |-> "", image |-> FALSE]
\* _get_embedding has not run
NoEmbed == [why |-> "", called |-> FALSE]
NoLoc == [live |-> FALSE, messages |-> <<>>, image_url |-> FALSE, now |-> 0,
          embedding |-> <<>>, embed |-> NoEmbed]
NoOut == [group |-> "", undescribed |-> FALSE, path |-> "", msg |-> NoRecord,
          embed |-> NoEmbed,
         messages |-> <<>>,
          matched_msg |-> NoRecord, matched_idx |-> 0, match_type |-> "none",
          unique_count |-> 0, judge |-> JudgeNote(""), should_remind |-> ""]
NoLast == [op |-> "", group |-> "", cold |-> FALSE, ret |-> <<>>,
           before |-> NoEntry, at |-> 0]
\* no function has been called
NoCall == [fn |-> "", messages |-> <<>>, query |-> <<>>, other |-> <<>>,
           threshold |-> 0, exclude_recent |-> 0, result |-> NoMatch]

\* The records a group holds when a run starts: what earlier messages left
\* there.  A posted a text with an image at time 0, B the same at time 1.
History ==
    <<Record(-1, "A", 0, <<1, 0>>, TRUE, TRUE, <<0, 0, 0>>),
      Record(-2, "B", 1, <<1, 0>>, TRUE, TRUE, <<0, 0, 0>>)>>
Histories == {<<>>, History}

\* the store after the records of h have been appended, each at its own time
RECURSIVE StoreAfter(_)
StoreAfter(h) ==
    IF h = <<>> THEN [entry |-> NoEntry, dsk |-> <<>>]
    ELSE LET before == StoreAfter(SubSeq(h, 1, Len(h) - 1))
             m == h[Len(h)]
         IN AppendMessage(before.entry, before.dsk, m, m.timestamp)

Init ==
    /\ now = 1
    /\ ticks = 0
    /\ config \in Configs
    /\ \E h \in Histories :
         /\ cache = [g \in Groups |-> StoreAfter(h).entry]
         /\ disk = [g \in Groups |-> StoreAfter(h).dsk]
         /\ appended = [g \in Groups |-> h]
    /\ pc = [m \in Msgs |-> "idle"]
    /\ ev = [m \in Msgs |-> NoEvent]
    /\ loc = [m \in Msgs |-> NoLoc]
    /\ out = [m \in Msgs |-> NoOut]
    /\ judge_calls = [m \in Msgs |-> 0]
    /\ reminders = [m \in Msgs |-> 0]
    /\ ops = 0
    /\ phase = [g \in Groups |-> "appending"]
    /\ last = NoLast
    /\ held = [g \in Groups |-> {}]
    /\ files = [g \in Groups |-> NoFiles]
    /\ call = NoCall

\* the tasks suspended at an external call
Suspended == {"embed", "download", "judge"}
InFlight == {m \in Msgs : pc[m] \in Suspended}

(***************************************************************************)
(* The clock                                                               *)
(***************************************************************************)
Tick ==
    /\ ticks < MaxTicks
    /\ \E step \in TickSteps : now' = now + step
    /\ ticks' = ticks + 1
    /\ UNCHANGED <<config, cache, disk, appended, pipeline_vars, store_vars>>

(***************************************************************************)
(* on_group_message, one action per stretch between two suspensions        *)
(***************************************************************************)
\* faulty variant of Filtered: the conversation is loaded before the content
\* filters are applied
FilteredAfterLoad(m, e, why) ==
    /\ pc' = [pc EXCEPT ![m] = "filtered"]
    /\ ev' = [ev EXCEPT ![m] = NoEvent]
    /\ loc' = [loc EXCEPT ![m] = NoLoc]
    /\ out' = [out EXCEPT ![m] = [NoOut EXCEPT !.group = e.group,
                                                !.undescribed = e.image,
                                                !.path = why]]
    /\ cache' = IF e.group \in Groups
                THEN [cache EXCEPT ![e.group] = LoadMessages(@, disk[e.group], now)]
                ELSE cache
    /\ UNCHANGED <<now, ticks, config, disk, appended, judge_calls,
                   reminders, store_vars>>

\* the task returns before the store is touched
Filtered(m, e, why) ==
    /\ pc' = [pc EXCEPT ![m] = "filtered"]
    /\ ev' = [ev EXCEPT ![m] = NoEvent]
    /\ loc' = [loc EXCEPT ![m] = NoLoc]
    /\ out' = [out EXCEPT ![m] = [NoOut EXCEPT !.group = e.group,
                                                !.undescribed = e.image,
                                                !.path = why]]
    /\ UNCHANGED <<now, ticks, config, cache, disk, appended, judge_calls,
                   reminders, store_vars>>

\* messages = self._load_messages(group_id), then the call of _get_embedding
\* is awaited.  A list that the load takes out of the cache stays with the
\* tasks that hold it, as it was.  Of the event the task keeps the group, the
\* sender and whether it carried an image that _image_to_text did not describe.
LoadAndEmbed(m, e, image_url) ==
    LET g == e.group
        keeps == LoadKeepsList(cache[g], now)
    IN /\ cache' = [cache EXCEPT ![g] = LoadMessages(cache[g], disk[g], now)]
       /\ loc' = [k \in Msgs |->
                    IF k = m
                    THEN [NoLoc EXCEPT !.live = TRUE, !.image_url = image_url]
                    ELSE IF loc[k].live /\ ev[k].group = g /\ ~keeps
                    THEN [loc[k] EXCEPT !.live = FALSE, !.messages = cache[g].messages]
                    ELSE loc[k]]
       /\ pc' = [pc EXCEPT ![m] = "embed"]
       /\ ev' = [ev EXCEPT ![m] = [e EXCEPT !.text = "",
                                             !.image = e.image /\ ~image_url]]
       /\ UNCHANGED <<now, ticks, config, disk, appended, out, judge_calls,
                      reminders, store_vars>>

\* from the result of _extract_content to the await of _get_embedding;
\* described says whether the vision model returned a description
AfterExtract(m, e, described) ==
    LET left == [e EXCEPT !.image = e.image /\ ~described]
    IN IF ~described /\ e.text = "none" THEN Filtered(m, left, "no_content")
       ELSE IF ~described /\ e.text = "short" THEN Filtered(m, left, "short")
       ELSE IF e.text = "ignored" THEN Filtered(m, left, "ignore_regex")
       ELSE IF e.text = "command" THEN Filtered(m, left, "command")
       ELSE LoadAndEmbed(m, e, described)

\* the host delivers message m; _extract_content runs (for an image it awaits
\* _image_to_text, which returns a description or None); the stretch up to
\* there reads nothing shared, so it is taken together with what follows it
Receive(m) ==
    /\ pc[m] = "idle"
    /\ IF m = 1 THEN TRUE ELSE pc[m - 1] # "idle"
    /\ Cardinality(InFlight) < MaxInFlight
    /\ \/ \E g \in BlockedGroups :
            Filtered(m, [NoEvent EXCEPT !.group = g], "blocked")
       \/ \E g \in Groups, s \in Senders, t \in TextKinds, image \in BOOLEAN :
            \E described \in {d \in BOOLEAN : d => image} :
                AfterExtract(m, [group |-> g, sender_id |-> s, text |-> t,
                                 image |-> image], described)

\* the result of a task, as kept in out: the record, the list it was matched
\* against (`messages`, without the record itself), the match and the verdict
Outcome(e, msg, dec, path, judge, should_remind) ==
    [group |-> e.group, undescribed |-> e.image, path |-> path, msg |-> msg,
     embed |-> dec.embed, messages |-> dec.messages,
     matched_msg |-> dec.matched_msg, matched_idx |-> dec.matched_idx,
     match_type |-> dec.match_type, unique_count |-> dec.unique_count,
     judge |-> judge, should_remind |-> should_remind]

\* faulty variant of Finish: a message stopped by the cooldown is not saved
FinishSkipsAppend(m, msg, dec, path, judge, should_remind) ==
    LET g == ev[m].group
        a == IF path = "cooldown" THEN [entry |-> cache[g], dsk |-> disk[g]]
             ELSE AppendMessage(cache[g], disk[g], msg, now)
    IN /\ cache' = [cache EXCEPT ![g] = a.entry]
       /\ disk' = [disk EXCEPT ![g] = a.dsk]
       /\ appended' = [appended EXCEPT ![g] =
                           IF path = "cooldown" THEN @ ELSE Append(@, msg)]
       /\ out' = [out EXCEPT ![m] = Outcome(ev[m], msg, dec, path, judge, should_remind)]
       /\ pc' = [pc EXCEPT ![m] = IF Truthy(should_remind) THEN "remind" ELSE "done"]
       /\ ev' = [ev EXCEPT ![m] = NoEvent]
       /\ loc' = [loc EXCEPT ![m] = NoLoc]
       /\ UNCHANGED <<now, ticks, config, reminders, store_vars>>

\* faulty variant of Finish: the record is appended to the list the task
\* loaded, and that list is made the cached one
FinishAppendsToSnapshot(m, msg, dec, path, judge, should_remind) ==
    LET g == ev[m].group
        a == AppendMessage([cache[g] EXCEPT !.messages = dec.messages], disk[g], msg, now)
    IN /\ cache' = [cache EXCEPT ![g] = a.entry]
       /\ disk' = [disk EXCEPT ![g] = a.dsk]
       /\ appended' = [appended EXCEPT ![g] = Append(@, msg)]
       /\ out' = [out EXCEPT ![m] = Outcome(ev[m], msg, dec, path, judge, should_remind)]
       /\ pc' = [pc EXCEPT ![m] = IF Truthy(should_remind) THEN "remind" ELSE "done"]
       /\ ev' = [ev EXCEPT ![m] = NoEvent]
       /\ loc' = [loc EXCEPT ![m] = NoLoc]
       /\ UNCHANGED <<now, ticks, config, reminders, store_vars>>

\* _append_message(group_id, msg) and what follows it: the reminder is
\* yielded next if should_remind is true, else the task is over
Finish(m, msg, dec, path, judge, should_remind) ==
    LET g == ev[m].group
        a == AppendMessage(cache[g], disk[g], msg, now)
    IN /\ cache' = [cache EXCEPT ![g] = a.entry]
       /\ disk' = [disk EXCEPT ![g] = a.dsk]
       /\ appended' = [appended EXCEPT ![g] = Append(@, msg)]
       /\ out' = [out EXCEPT ![m] = Outcome(ev[m], msg, dec, path, judge, should_remind)]
       /\ pc' = [pc EXCEPT ![m] = IF Truthy(should_remind) THEN "remind" ELSE "done"]
       /\ ev' = [ev EXCEPT ![m] = NoEvent]
       /\ loc' = [loc EXCEPT ![m] = NoLoc]
       /\ UNCHANGED <<now, ticks, config, reminders, store_vars>>

\* faulty variant of AwaitJudge: the record is put on the cached list for
\* matching (messages.append(msg) in place of messages + [msg])
AwaitJudgeExtendsList(m, msg, dec) ==
    /\ pc' = [pc EXCEPT ![m] = "judge"]
    /\ loc' = [loc EXCEPT ![m] = NoLoc]
    /\ out' = [out EXCEPT ![m] = Outcome(ev[m], msg, dec, "judge", JudgeNote("called"), "")]
    /\ judge_calls' = [judge_calls EXCEPT ![m] = @ + 1]
    /\ cache' = [cache EXCEPT ![ev[m].group].messages = Append(@, msg)]
    /\ UNCHANGED <<now, ticks, config, disk, ev, appended, reminders, store_vars>>

\* the task is suspended in provider.text_chat of _judge_remind
AwaitJudge(m, msg, dec) ==
    /\ pc' = [pc EXCEPT ![m] = "judge"]
    /\ loc' = [loc EXCEPT ![m] = NoLoc]
    /\ out' = [out EXCEPT ![m] = Outcome(ev[m], msg, dec, "judge", JudgeNote("called"), "")]
    /\ judge_calls' = [judge_calls EXCEPT ![m] = @ + 1]
    /\ UNCHANGED <<now, ticks, config, cache, disk, ev, appended, reminders, store_vars>>

\* faulty variant of MatchAndGate: the record never says it has an image
MatchAndGateNoImageFlag(m, l, cached_image, image_hash) ==
    LET e == ev[m]
        msg == Record(m, e.sender_id, l.now, l.embedding, FALSE,
                      cached_image, image_hash)
        messages == IF l.live THEN cache[e.group].messages ELSE l.messages
        dec == Decide(messages, msg, config) @@ [embed |-> l.embed]
    IN IF dec.gate # "pass"
       THEN Finish(m, msg, dec, dec.gate, JudgeNote(""), "false") /\ UNCHANGED judge_calls
       ELSE IF ~config.enable_llm_judge
       THEN Finish(m, msg, dec, "judge_off", JudgeNote(""), "true") /\ UNCHANGED judge_calls
       ELSE \/ AwaitJudge(m, msg, dec)
            \/ \E why \in {"no_provider_id", "provider_not_found"} :
                 /\ Finish(m, msg, dec, "judge", JudgeNote(why), "false")
                 /\ judge_calls' = [judge_calls EXCEPT ![m] = @ + 1]

\* from the record's creation to the first await or return after it, with
\* the task's locals l
MatchAndGate(m, l, cached_image, image_hash) ==
    LET e == ev[m]
        msg == Record(m, e.sender_id, l.now, l.embedding, l.image_url,
                      cached_image, image_hash)
        messages == IF l.live THEN cache[e.group].messages ELSE l.messages
        dec == Decide(messages, msg, config) @@ [embed |-> l.embed]
    IN IF dec.gate # "pass"
       THEN Finish(m, msg, dec, dec.gate, JudgeNote(""), "false") /\ UNCHANGED judge_calls
       ELSE IF ~config.enable_llm_judge
       THEN Finish(m, msg, dec, "judge_off", JudgeNote(""), "true") /\ UNCHANGED judge_calls
       ELSE \/ AwaitJudge(m, msg, dec)
            \/ \E why \in {"no_provider_id", "provider_not_found"} :
                 /\ Finish(m, msg, dec, "judge", JudgeNote(why), "false")
                 /\ judge_calls' = [judge_calls EXCEPT ![m] = @ + 1]

\* faulty variant of EmbeddingReturns: a failure of the embedding provider
\* ends the task before the record is made
EmbeddingReturnsRaises(m) ==
    /\ pc[m] = "embed"
    /\ \E r \in EmbeddingResults :
         LET l == [loc[m] EXCEPT !.now = now, !.embedding = r.embedding,
                                 !.embed = [why |-> r.why, called |-> r.called]]
         IN IF r.embedding = <<>>
            THEN Filtered(m, ev[m], "no_content")
            ELSE IF l.image_url
            THEN /\ loc' = [loc EXCEPT ![m] = l]
                 /\ pc' = [pc EXCEPT ![m] = "download"]
                 /\ UNCHANGED <<now, ticks, config, cache, disk, ev, out, appended,
                                judge_calls, reminders, store_vars>>
            ELSE MatchAndGate(m, l, FALSE, <<>>)

\* _get_embedding returns (None on any failure); now = time.time(); with an
\* image the task is suspended again in _cache_image
EmbeddingReturns(m) ==
    /\ pc[m] = "embed"
    /\ \E r \in EmbeddingResults :
         LET l == [loc[m] EXCEPT !.now = now, !.embedding = r.embedding,
                                 !.embed = [why |-> r.why, called |-> r.called]]
         IN IF l.image_url
            THEN /\ loc' = [loc EXCEPT ![m] = l]
                 /\ pc' = [pc EXCEPT ![m] = "download"]
                 /\ UNCHANGED <<now, ticks, config, cache, disk, ev, out, appended,
                                judge_calls, reminders, store_vars>>
            ELSE MatchAndGate(m, l, FALSE, <<>>)

\* _cache_image returns
DownloadReturns(m) ==
    /\ pc[m] = "download"
    /\ \E r \in DownloadResults : MatchAndGate(m, loc[m], r.cached_image, r.image_hash)

\* faulty variant of JudgeReturns: an exception of provider.text_chat is not
\* caught and ends the handler before _append_message
JudgeReturnsRaises(m) ==
    /\ pc[m] = "judge"
    /\ \E response \in JudgeResponses :
         IF response.kind = "exception"
         THEN Filtered(m, ev[m], "no_content")
         ELSE /\ Finish(m, out[m].msg, out[m], "judge", response, JudgeRemind(response))
              /\ UNCHANGED judge_calls

\* provider.text_chat returns or raises; _judge_remind returns
JudgeReturns(m) ==
    /\ pc[m] = "judge"
    /\ \E response \in JudgeResponses :
         /\ Finish(m, out[m].msg, out[m], "judge", response, JudgeRemind(response))
         /\ UNCHANGED judge_calls

\* yield of the chain built by _send_reminder
SendReminder(m) ==
    /\ pc[m] = "remind"
    /\ reminders' = [reminders EXCEPT ![m] = @ + 1]
    /\ pc' = [pc EXCEPT ![m] = "done"]
    /\ UNCHANGED <<now, ticks, config, cache, disk, ev, loc, out, appended,
                   judge_calls, store_vars>>

Next ==
    \/ Tick
    \/ \E m \in Msgs : Receive(m)
    \/ \E m \in Msgs : EmbeddingReturns(m)
    \/ \E m \in Msgs : DownloadReturns(m)
    \/ \E m \in Msgs : JudgeReturns(m)
    \/ \E m \in Msgs : SendReminder(m)

Spec == Init /\ [][Next]_vars

LiveMsgs == 1..MaxLiveMsgs

\* every external call returns in the end, with a result or a failure: a task
\* suspended in _get_embedding, _cache_image or provider.text_chat is resumed,
\* and the host takes the reminder the handler yields
ExternalCallsReturn ==
    \A m \in LiveMsgs :
        /\ WF_vars(EmbeddingReturns(m))
        /\ WF_vars(DownloadReturns(m))
        /\ WF_vars(JudgeReturns(m))
        /\ WF_vars(SendReminder(m))

\* the pipeline of the messages of LiveMsgs, with the clock
NextLive ==
    \/ Tick
    \/ \E m \in LiveMsgs : Receive(m)
    \/ \E m \in LiveMsgs : EmbeddingReturns(m)
    \/ \E m \in LiveMsgs : DownloadReturns(m)
    \/ \E m \in LiveMsgs : JudgeReturns(m)
    \/ \E m \in LiveMsgs : SendReminder(m)

SpecLive == Init /\ [][NextLive]_vars /\ ExternalCallsReturn

(***************************************************************************)
(* The store on its own: append, load, flush and restarts of the process   *)
(***************************************************************************)
\* phase[g] says how the group's cache and directory stand:
\*   "appending"  records may be in the cache that are not on disk
\*   "flushed"    _flush_cache ran and nothing was appended since
\*   "fresh"      the process restarted after a flush: the cache is empty
\*   "broken"     records were lost (restart before a flush, append to an
\*                empty cache over an existing partition)
StorePipelineIdle ==
    UNCHANGED <<config, pipeline_vars, call>>

\* the records the store is given: a text, or a text with an image
StoreRecords(id, t) ==
    {Record(id, s, t, <<1, 0>>, FALSE, FALSE, <<>>) : s \in Senders}
    \cup {Record(id, s, t, <<>>, TRUE, TRUE, <<0, 0, 0>>) : s \in Senders}

\* the clock of the store specification also stops one second short of a
\* whole day, so that a record can be younger than a day on the next day
StoreTickSteps == TickSteps \cup {DaySeconds - 1}

StoreTick ==
    /\ ops < MaxOps
    /\ \E step \in StoreTickSteps : now' = now + step
    /\ ops' = ops + 1
    /\ UNCHANGED <<ticks, cache, disk, appended, phase, last, held, files>>
    /\ StorePipelineIdle

\* _append_message(group_id, message) with a record made now
StoreAppend(g) ==
    /\ ops < MaxOps
    /\ \E message \in StoreRecords(ops + 1, now) :
         LET a == AppendMessage(cache[g], disk[g], message, now)
         IN /\ cache' = [cache EXCEPT ![g] = a.entry]
            /\ disk' = [disk EXCEPT ![g] = a.dsk]
            /\ appended' = [appended EXCEPT ![g] = Append(@, message)]
            /\ last' = [op |-> "append", group |-> g, cold |-> FALSE, ret |-> <<>>,
                        before |-> cache[g], at |-> now]
    /\ phase' = [phase EXCEPT ![g] =
                    IF @ \in {"fresh", "broken"} THEN "broken" ELSE "appending"]
    /\ ops' = ops + 1
    /\ UNCHANGED <<now, ticks, held, files>>
    /\ StorePipelineIdle

\* _load_messages(group_id)
StoreLoad(g) ==
    /\ ops < MaxOps
    /\ cache' = [cache EXCEPT ![g] = LoadMessages(cache[g], disk[g], now)]
    /\ last' = [op |-> "load", group |-> g,
                cold |-> (~cache[g].present /\ phase[g] = "fresh"),
                ret |-> LoadMessages(cache[g], disk[g], now).messages,
                before |-> cache[g], at |-> now]
    /\ phase' = [phase EXCEPT ![g] = IF @ = "fresh" THEN "flushed" ELSE @]
    /\ ops' = ops + 1
    /\ UNCHANGED <<now, ticks, disk, appended, held, files>>
    /\ StorePipelineIdle

\* _flush_cache(group_id)
StoreFlush(g) ==
    /\ ops < MaxOps
    /\ disk' = [disk EXCEPT ![g] = FlushCache(cache[g], disk[g])]
    /\ last' = [op |-> "flush", group |-> g, cold |-> FALSE, ret |-> <<>>,
                before |-> cache[g], at |-> now]
    /\ phase' = [phase EXCEPT ![g] = IF @ = "appending" THEN "flushed" ELSE @]
    /\ ops' = ops + 1
    /\ UNCHANGED <<now, ticks, cache, appended, held, files>>
    /\ StorePipelineIdle

\* the process restarts: __init__ sets self._cache = {}; the files stay and
\* the suspended tasks are gone
Restart ==
    /\ ops < MaxOps
    /\ cache' = [g \in Groups |-> NoEntry]
    /\ last' = [op |-> "restart", group |-> "", cold |-> FALSE, ret |-> <<>>,
                before |-> NoEntry, at |-> now]
    /\ phase' = [g \in Groups |->
                    IF phase[g] = "flushed" THEN "fresh"
                    ELSE IF phase[g] = "fresh" THEN "fresh"
                    ELSE "broken"]
    /\ held' = [g \in Groups |-> {}]
    /\ ops' = ops + 1
    /\ UNCHANGED <<now, ticks, disk, appended, files>>
    /\ StorePipelineIdle

NextStore ==
    \/ StoreTick
    \/ \E g \in Groups : StoreAppend(g)
    \/ \E g \in Groups : StoreLoad(g)
    \/ \E g \in Groups : StoreFlush(g)
    \/ Restart

SpecStore == Init /\ [][NextStore]_vars

(***************************************************************************)
(* The store late on a busy day: batches of writes, and records that are   *)
(* appended some time after they were made                                 *)
(***************************************************************************)
\* tasks of one group that hold a record not yet appended
MaxHeld == 1

\* what a day's traffic leaves in a group: n text records, the first made at
\* time 0, the others at time 1
RECURSIVE BatchHistory(_)
BatchHistory(n) ==
    IF n = 0 THEN <<>>
    ELSE Append(BatchHistory(n - 1),
                Record(0 - n, IF n = 1 THEN "A" ELSE "B", IF n = 1 THEN 0 ELSE 1,
                       <<1, 0>>, FALSE, FALSE, <<>>))

\* nothing yet, one record short of a first batch, one short of a second
BatchHistories == {BatchHistory(n) : n \in {0, BatchSize - 1, 2 * BatchSize - 1}}

InitBatch ==
    /\ now = 1
    /\ ticks = 0
    /\ config \in Configs
    /\ \E h \in BatchHistories :
         /\ cache = [g \in Groups |-> StoreAfter(h).entry]
         /\ disk = [g \in Groups |-> StoreAfter(h).dsk]
         /\ appended = [g \in Groups |-> h]
    /\ pc = [m \in Msgs |-> "idle"]
    /\ ev = [m \in Msgs |-> NoEvent]
    /\ loc = [m \in Msgs |-> NoLoc]
    /\ out = [m \in Msgs |-> NoOut]
    /\ judge_calls = [m \in Msgs |-> 0]
    /\ reminders = [m \in Msgs |-> 0]
    /\ ops = 0
    /\ phase = [g \in Groups |-> "appending"]
    /\ last = NoLast
    /\ held = [g \in Groups |-> {}]
    /\ files = [g \in Groups |-> NoFiles]
    /\ call = NoCall

\* a task of on_group_message reads the clock for its record (now =
\* time.time()) and is then suspended in _cache_image or _judge_remind
StoreCapture(g) ==
    /\ ops < MaxOps
    /\ Cardinality(held[g]) < MaxHeld
    /\ held' = [held EXCEPT ![g] = @ \cup {now}]
    /\ last' = [op |-> "capture", group |-> g, cold |-> FALSE, ret |-> <<>>,
                before |-> cache[g], at |-> now]
    /\ ops' = ops + 1
    /\ UNCHANGED <<now, ticks, cache, disk, appended, phase, files>>
    /\ StorePipelineIdle

\* the suspended task goes on: _append_message(group_id, msg) with the
\* record it made when it read the clock
StoreAppendHeld(g) ==
    /\ ops < MaxOps
    /\ \E t \in held[g] :
         /\ \E message \in StoreRecords(ops + 1, t) :
              LET a == AppendMessage(cache[g], disk[g], message, now)
              IN /\ cache' = [cache EXCEPT ![g] = a.entry]
                 /\ disk' = [disk EXCEPT ![g] = a.dsk]
                 /\ appended' = [appended EXCEPT ![g] = Append(@, message)]
         /\ held' = [held EXCEPT ![g] = @ \ {t}]
    /\ last' = [op |-> "append", group |-> g, cold |-> FALSE, ret |-> <<>>,
                before |-> cache[g], at |-> now]
    /\ phase' = [phase EXCEPT ![g] =
                    IF @ \in {"fresh", "broken"} THEN "broken" ELSE "appending"]
    /\ ops' = ops + 1
    /\ UNCHANGED <<now, ticks, files>>
    /\ StorePipelineIdle

NextBatch ==
    \/ StoreTick
    \/ \E g \in Groups : StoreCapture(g)
    \/ \E g \in Groups : StoreAppend(g)
    \/ \E g \in Groups : StoreAppendHeld(g)
    \/ \E g \in Groups : StoreLoad(g)

SpecBatch == InitBatch /\ [][NextBatch]_vars

\* the conversation keeps receiving messages: the handler's load and append
\* go on as long as the run lasts
MessagesKeepComing ==
    \A g \in Groups :
        /\ WF_vars(StoreLoad(g))
        /\ WF_vars(StoreAppend(g))

\* a run without crashes, flushes or suspended tasks: the clock, and for every
\* message the load and the append of its handler
NextBatchLive ==
    \/ StoreTick
    \/ \E g \in Groups : StoreLoad(g)
    \/ \E g \in Groups : StoreAppend(g)

SpecBatchLive == InitBatch /\ [][NextBatchLive]_vars /\ MessagesKeepComing

(***************************************************************************)
(* Tasks that stay suspended for longer than the retention period: the     *)
(* handler sets no timeout on its external calls                           *)
(***************************************************************************)
\* a task of on_group_message has loaded the conversation, reads the clock
\* for its record and is suspended
LateCapture(g) == cache[g].present /\ StoreCapture(g)

\* the clock advances by more than the retention period at once
LongTick ==
    /\ ops < MaxOps
    /\ now' = now + (data_retention_days + 1) * DaySeconds
    /\ ops' = ops + 1
    /\ UNCHANGED <<ticks, cache, disk, appended, phase, last, held, files>>
    /\ StorePipelineIdle

NextLate ==
    \/ StoreTick
    \/ LongTick
    \/ \E g \in Groups : LateCapture(g)
    \/ \E g \in Groups : StoreAppend(g)
    \/ \E g \in Groups : StoreAppendHeld(g)
    \/ \E g \in Groups : StoreLoad(g)

SpecLate == InitBatch /\ [][NextLate]_vars

(***************************************************************************)
(* The store with the files of older versions, damaged partitions,         *)
(* failing writes and the erase command                                    *)
(***************************************************************************)
\* what a starting process can find in a group's data: nothing, day
\* partitions of this version, the single file of the oldest versions, or
\* an uncompressed day partition
StoreKinds == {"empty", "current", "legacy", "plain"}

FlushedHistory == FlushCache(StoreAfter(History).entry, StoreAfter(History).dsk)

InitFiles ==
    /\ now = 1
    /\ ticks = 0
    \* the store reads data_retention_days only, which is the same in all
    /\ config \in {c \in Configs : c.enable_llm_judge}
    /\ cache = [g \in Groups |-> NoEntry]
    /\ \E kind \in StoreKinds :
         /\ disk = [g \in Groups |-> IF kind = "current" THEN FlushedHistory ELSE <<>>]
         /\ files = [g \in Groups |->
                        [NoFiles EXCEPT
                            !.legacy = IF kind = "legacy"
                                       THEN File(JsonDumpAll(History)) ELSE @,
                            !.plain = IF kind = "plain"
                                      THEN Put(<<>>, 0, JsonDumpAll(History)) ELSE @]]
         /\ appended = [g \in Groups |-> IF kind = "empty" THEN <<>> ELSE History]
    /\ pc = [m \in Msgs |-> "idle"]
    /\ ev = [m \in Msgs |-> NoEvent]
    /\ loc = [m \in Msgs |-> NoLoc]
    /\ out = [m \in Msgs |-> NoOut]
    /\ judge_calls = [m \in Msgs |-> 0]
    /\ reminders = [m \in Msgs |-> 0]
    /\ ops = 0
    /\ phase = [g \in Groups |-> "fresh"]
    /\ last = NoLast
    /\ held = [g \in Groups |-> {}]
    /\ call = NoCall

\* _load_messages(group_id); without a cache entry it reads the directory,
\* where one of the failures of LoadFaults may strike
FilesLoad(g) ==
    /\ ops < MaxOps
    /\ \E fault \in LoadFaults :
         IF cache[g].present
         THEN /\ fault = "none"
              /\ cache' = [cache EXCEPT ![g] = LoadMessages(cache[g], disk[g], now)]
              /\ last' = [op |-> "load", group |-> g, cold |-> FALSE,
                          ret |-> LoadMessages(cache[g], disk[g], now).messages,
                          before |-> cache[g], at |-> now]
              /\ UNCHANGED <<disk, files>>
         ELSE LET r == LoadMessagesFromDiskWith(files[g], disk[g], now, fault)
              IN /\ cache' = IF r.raised THEN cache ELSE [cache EXCEPT ![g] = r.entry]
                 /\ disk' = [disk EXCEPT ![g] = r.dsk]
                 /\ files' = [files EXCEPT ![g] = r.files]
                 /\ last' = [op |-> IF r.raised THEN "load_raised"
                                    ELSE IF fault = "none" THEN "load" ELSE "load_fault",
                             group |-> g, cold |-> TRUE, ret |-> r.entry.messages,
                             before |-> cache[g], at |-> now]
    /\ ops' = ops + 1
    /\ UNCHANGED <<now, ticks, appended, phase, held>>
    /\ StorePipelineIdle

\* the process dies in _load_messages_from_disk while it writes the .json.gz
\* of an uncompressed partition: the file is left as far as written
FilesLoadCrash(g) ==
    /\ ops < MaxOps
    /\ ~cache[g].present
    /\ LET mig == MigrateLegacyData(files[g], disk[g], "none")
           plain == mig.files.plain
           todo == {d \in DOMAIN plain : Readable(plain[d])}
       IN /\ todo # {}
          /\ disk' = [disk EXCEPT ![g] =
                          Put(mig.dsk, CHOOSE d \in todo : \A e \in todo : d <= e, Garbage)]
          /\ files' = [files EXCEPT ![g] = mig.files]
    /\ cache' = [k \in Groups |-> NoEntry]
    /\ held' = [k \in Groups |-> {}]
    /\ last' = [op |-> "crash", group |-> g, cold |-> FALSE, ret |-> <<>>,
                before |-> cache[g], at |-> now]
    /\ ops' = ops + 1
    /\ UNCHANGED <<now, ticks, appended, phase>>
    /\ StorePipelineIdle

\* _append_message(group_id, message); the write of the day's partition may
\* fail (the temp file is removed, the partition stays as it was)
FilesAppend(g) ==
    /\ ops < MaxOps
    /\ \E message \in StoreRecords(ops + 1, now), fault \in {"none", "write"} :
         LET a == AppendMessage(cache[g], disk[g], message, now)
             today_str == DateStr(message.timestamp)
             wrote == ShouldWrite(DayMessages(a.entry.messages, today_str))
         IN /\ cache' = [cache EXCEPT ![g] = a.entry]
            /\ disk' = [disk EXCEPT ![g] = IF fault = "write" THEN @ ELSE a.dsk]
            /\ files' = [files EXCEPT ![g].tmp = IF wrote THEN @ \ {today_str} ELSE @]
            /\ appended' = [appended EXCEPT ![g] = Append(@, message)]
            /\ last' = [op |-> IF fault = "write" /\ wrote THEN "append_fault" ELSE "append",
                        group |-> g, cold |-> FALSE, ret |-> <<>>,
                        before |-> cache[g], at |-> now]
    /\ ops' = ops + 1
    /\ UNCHANGED <<now, ticks, phase, held>>
    /\ StorePipelineIdle

\* faulty variant of FilesErase: the whole cache is emptied
FilesEraseClearsCache(g) ==
    /\ ops < MaxOps
    /\ cache' = [o \in DOMAIN cache |-> NoEntry]
    /\ disk' = [disk EXCEPT ![g] = <<>>]
    /\ files' = [files EXCEPT ![g].plain = <<>>, ![g].tmp = {}]
    /\ last' = [op |-> "erase", group |-> g, cold |-> FALSE, ret |-> <<>>,
                before |-> cache[g], at |-> now]
    /\ ops' = ops + 1
    /\ UNCHANGED <<now, ticks, appended, phase, held>>
    /\ StorePipelineIdle

\* clear_data by an administrator: the cache entry is dropped and the group
\* directory removed with everything in it
FilesErase(g) ==
    /\ ops < MaxOps
    /\ cache' = [cache EXCEPT ![g] = NoEntry]
    /\ disk' = [disk EXCEPT ![g] = <<>>]
    /\ files' = [files EXCEPT ![g].plain = <<>>, ![g].tmp = {}]
    /\ last' = [op |-> "erase", group |-> g, cold |-> FALSE, ret |-> <<>>,
                before |-> cache[g], at |-> now]
    /\ ops' = ops + 1
    /\ UNCHANGED <<now, ticks, appended, phase, held>>
    /\ StorePipelineIdle

\* a partition is damaged on the disk
FilesCorrupt(g) ==
    /\ ops < MaxOps
    /\ \E d \in DOMAIN disk[g] :
         /\ Readable(disk[g][d])
         /\ disk' = [disk EXCEPT ![g] = Put(@, d, Garbage)]
    /\ last' = [op |-> "corrupt", group |-> g, cold |-> FALSE, ret |-> <<>>,
                before |-> cache[g], at |-> now]
    /\ ops' = ops + 1
    /\ UNCHANGED <<now, ticks, cache, appended, phase, held, files>>
    /\ StorePipelineIdle

\* check_status: a sender who is no administrator is turned away; otherwise
\* the handler calls _load_messages(group_id) and summarises the list it gets
CheckStatus(g) ==
    /\ ops < MaxOps
    /\ \E is_admin \in BOOLEAN, fault \in LoadFaults :
         IF ~is_admin
         THEN /\ fault = "none"
              /\ last' = [op |-> "status_denied", group |-> g, cold |-> FALSE,
                          ret |-> <<>>, before |-> cache[g], at |-> now]
              /\ UNCHANGED <<cache, disk, files>>
         ELSE IF cache[g].present
         THEN /\ fault = "none"
              /\ cache' = [cache EXCEPT ![g] = LoadMessages(cache[g], disk[g], now)]
              /\ last' = [op |-> "status", group |-> g, cold |-> FALSE,
                          ret |-> LoadMessages(cache[g], disk[g], now).messages,
                          before |-> cache[g], at |-> now]
              /\ UNCHANGED <<disk, files>>
         ELSE LET r == LoadMessagesFromDiskWith(files[g], disk[g], now, fault)
              IN /\ cache' = IF r.raised THEN cache ELSE [cache EXCEPT ![g] = r.entry]
                 /\ disk' = [disk EXCEPT ![g] = r.dsk]
                 /\ files' = [files EXCEPT ![g] = r.files]
                 /\ last' = [op |-> IF r.raised THEN "status_raised" ELSE "status",
                             group |-> g, cold |-> TRUE, ret |-> r.entry.messages,
                             before |-> cache[g], at |-> now]
    /\ ops' = ops + 1
    /\ UNCHANGED <<now, ticks, appended, phase, held>>
    /\ StorePipelineIdle

NextFiles ==
    \/ StoreTick
    \/ \E g \in Groups : FilesLoad(g)
    \/ \E g \in Groups : CheckStatus(g)
    \/ \E g \in Groups : FilesLoadCrash(g)
    \/ \E g \in Groups : FilesAppend(g)
    \/ \E g \in Groups : StoreFlush(g)
    \/ \E g \in Groups : FilesErase(g)
    \/ \E g \in Groups : FilesCorrupt(g)
    \/ Restart

SpecFiles == InitFiles /\ [][NextFiles]_vars

(***************************************************************************)
(* The two commands as their senders issue them: check_status and          *)
(* clear_data look at the conversation of the event and at the sender's    *)
(* role before they touch the store                                        *)
(***************************************************************************)
\* event.get_group_id() of an event that comes from no group conversation
NoGroupId == ""

\* the events a command handler is called with
CommandEvents == [group_id : Groups \cup {NoGroupId}, is_admin : BOOLEAN]

\* what check_status yields when it turns the sender away: the fixed texts
\* "请在群聊中使用" (use it in a group) and "❌ 仅管理员可执行" (administrators only)
StatusRefusal(event) ==
    IF event.group_id = NoGroupId THEN "use_in_group" ELSE "admin_only"

\* a handler returns at one of its two checks: nothing but the reply (and a
\* log line) is produced
Refuse(fn, event, reply) ==
    /\ ops < MaxOps
    /\ last' = [op |-> "refused", group |-> event.group_id, cold |-> FALSE,
                ret |-> <<>>, before |-> NoEntry, at |-> now,
                fn |-> fn, event |-> event, reply |-> reply]
    /\ ops' = ops + 1
    /\ UNCHANGED <<now, ticks, cache, disk, files, appended, phase, held>>
    /\ StorePipelineIdle

CheckStatusCommand(event) ==
    IF event.group_id = NoGroupId \/ ~event.is_admin
    THEN Refuse("check_status", event, StatusRefusal(event))
    ELSE CheckStatus(event.group_id) /\ last'.op # "status_denied"

\* faulty variant of ClearDataCommand: the sender's role is not looked at
ClearDataCommandAnySender(event) ==
    IF event.group_id = NoGroupId
    THEN Refuse("clear_data", event, "")
    ELSE LET g == event.group_id
         IN /\ ops < MaxOps
            /\ cache' = [cache EXCEPT ![g] = NoEntry]
            /\ disk' = [disk EXCEPT ![g] = <<>>]
            /\ files' = [files EXCEPT ![g].plain = <<>>, ![g].tmp = {}]
            /\ last' = [op |-> "erase", group |-> g, cold |-> FALSE, ret |-> <<>>,
                        before |-> cache[g], at |-> now,
                        fn |-> "clear_data", event |-> event, reply |-> ""]
            /\ ops' = ops + 1
            /\ UNCHANGED <<now, ticks, appended, phase, held>>
            /\ StorePipelineIdle

\* clear_data replies nothing to the conversation, whatever it does
ClearDataCommand(event) ==
    IF event.group_id = NoGroupId \/ ~event.is_admin
    THEN Refuse("clear_data", event, "")
    ELSE FilesErase(event.group_id)

NextCommands ==
    \/ StoreTick
    \/ \E g \in Groups : FilesLoad(g)
    \/ \E g \in Groups : FilesAppend(g)
    \/ \E event \in CommandEvents : CheckStatusCommand(event)
    \/ \E event \in CommandEvents : ClearDataCommand(event)

SpecCommands == InitFiles /\ [][NextCommands]_vars

(***************************************************************************)
(* The matchers on their own: _find_best_match, _find_similar_image and    *)
(* the two sender counts, called once on a list of records                 *)
(***************************************************************************)
\* most records in a list handed to a matcher
MaxRecords == 3

\* the fingerprints of stored records: absent, or of another dimension or
\* length than the query, or comparable with it
StoredVectors == Vectors \cup {<<>>, <<1>>}
StoredHashes == Hashes \cup {<<>>, <<15>>}

\* thresholds of the configurable range 0..1 (scaled by SimScale)
MatchThresholds == {0, SimScale \div 2, DEFAULT_SIMILARITY_THRESHOLD}

\* the lists of at most MaxRecords records whose senders and fingerprints
\* are drawn from the given sets; record i was made at time i
TextRecords ==
    UNION {[1..n -> {[sender_id |-> x, fp |-> v] : x \in Senders, v \in StoredVectors}] :
              n \in 0..MaxRecords}
ImageRecords ==
    UNION {[1..n -> {[sender_id |-> x, fp |-> h] : x \in Senders, h \in StoredHashes}] :
              n \in 0..MaxRecords}
TextList(l) ==
    [i \in 1..Len(l) |-> Record(i, l[i].sender_id, i, l[i].fp, FALSE, FALSE, <<>>)]
ImageList(l) ==
    [i \in 1..Len(l) |-> Record(i, l[i].sender_id, i, <<>>, TRUE, l[i].fp # <<>>, l[i].fp)]

InitMatch ==
    /\ now = 1
    /\ ticks = 0
    /\ config \in {c \in Configs : c.enable_llm_judge}
    /\ cache = [g \in Groups |-> NoEntry]
    /\ disk = [g \in Groups |-> <<>>]
    /\ appended = [g \in Groups |-> <<>>]
    /\ pc = [m \in Msgs |-> "idle"]
    /\ ev = [m \in Msgs |-> NoEvent]
    /\ loc = [m \in Msgs |-> NoLoc]
    /\ out = [m \in Msgs |-> NoOut]
    /\ judge_calls = [m \in Msgs |-> 0]
    /\ reminders = [m \in Msgs |-> 0]
    /\ ops = 0
    /\ phase = [g \in Groups |-> "fresh"]
    /\ last = NoLast
    /\ held = [g \in Groups |-> {}]
    /\ files = [g \in Groups |-> NoFiles]
    /\ \E threshold \in MatchThresholds, exclude_recent \in {0, 1} :
         \/ \E l \in TextRecords, embedding \in Vectors :
              call = [NoCall EXCEPT !.messages = TextList(l), !.query = embedding,
                                    !.threshold = threshold,
                                    !.exclude_recent = exclude_recent]
         \/ \E l \in ImageRecords, current_hash \in Hashes :
              call = [NoCall EXCEPT !.messages = ImageList(l), !.query = current_hash,
                                    !.threshold = threshold,
                                    !.exclude_recent = exclude_recent]

\* the call leaves everything but its result as it was
Called(fn, result) ==
    /\ call.fn = ""
    /\ call' = [call EXCEPT !.fn = fn, !.result = result]
    /\ UNCHANGED <<now, ticks, config, cache, disk, appended, pipeline_vars,
                   ops, phase, last, held, files>>

FindBestMatchCall ==
    /\ call.query \in Vectors
    /\ Called("find_best_match",
              FindBestMatch(call.messages, call.query, call.threshold,
                            call.exclude_recent))

FindSimilarImageCall ==
    /\ call.query \in Hashes
    /\ Called("find_similar_image",
              FindSimilarImage(call.messages, call.query, call.threshold,
                               call.exclude_recent))

CountUniqueSendersCall ==
    /\ call.query \in Vectors
    /\ call.exclude_recent = 0
    /\ Called("count_unique_senders",
              [count |-> CountUniqueSenders(call.messages, call.query, call.threshold),
               senders |-> UniqueSenders(call.messages, call.query, call.threshold)])

CountUniqueSendersByHashCall ==
    /\ call.query \in Hashes
    /\ call.exclude_recent = 0
    /\ Called("count_unique_senders_by_hash",
              [count |-> CountUniqueSendersByHash(call.messages, call.query,
                                                  call.threshold),
               senders |-> UniqueSendersByHash(call.messages, call.query,
                                               call.threshold)])

NextMatch ==
    \/ FindBestMatchCall
    \/ FindSimilarImageCall
    \/ CountUniqueSendersCall
    \/ CountUniqueSendersByHashCall

SpecMatch == InitMatch /\ [][NextMatch]_vars

(***************************************************************************)
(* _hash_similarity on its own                                             *)
(***************************************************************************)
\* most characters in a hash handed to _hash_similarity
MaxHashLen == 3

\* the characters the hashes are made of
HashChars == {0, 5, 15, Underscore, NotHex}

HashStrings == UNION {[1..n -> HashChars] : n \in 0..MaxHashLen}

InitHash ==
    /\ now = 1
    /\ ticks = 0
    /\ config \in {c \in Configs : c.enable_llm_judge}
    /\ cache = [g \in Groups |-> NoEntry]
    /\ disk = [g \in Groups |-> <<>>]
    /\ appended = [g \in Groups |-> <<>>]
    /\ pc = [m \in Msgs |-> "idle"]
    /\ ev = [m \in Msgs |-> NoEvent]
    /\ loc = [m \in Msgs |-> NoLoc]
    /\ out = [m \in Msgs |-> NoOut]
    /\ judge_calls = [m \in Msgs |-> 0]
    /\ reminders = [m \in Msgs |-> 0]
    /\ ops = 0
    /\ phase = [g \in Groups |-> "fresh"]
    /\ last = NoLast
    /\ held = [g \in Groups |-> {}]
    /\ files = [g \in Groups |-> NoFiles]
    /\ \E hash1 \in HashStrings, hash2 \in HashStrings :
         call = [NoCall EXCEPT !.query = hash1, !.other = hash2]

HashSimilarityCall ==
    /\ call.messages = <<>>
    /\ Called("hash_similarity", HashSimilarity(call.query, call.other))

NextHash ==
    \/ HashSimilarityCall

SpecHash == InitHash /\ [][NextHash]_vars

(***************************************************************************)
(* Two conversations: the store operations on either of them and the       *)
(* handling of a message of the first                                      *)
(***************************************************************************)
\* most store operations in a run with two conversations
MaxGroupOps == 2

\* a second conversation beside those of Groups
OtherGroup == "g2"
Conversations == Groups \cup {OtherGroup}

InitGroups ==
    /\ now = 1
    /\ ticks = 0
    /\ config \in Configs
    \* the second conversation has its history in the cache, or on disk
    \* only (the process started after it was written)
    /\ \E h \in Histories, cached \in BOOLEAN :
         /\ cache = [g \in Conversations |->
                        IF g \in Groups THEN StoreAfter(h).entry
                        ELSE IF cached THEN StoreAfter(History).entry
                        ELSE NoEntry]
         /\ disk = [g \in Conversations |->
                       IF g \in Groups THEN StoreAfter(h).dsk
                       ELSE IF cached THEN StoreAfter(History).dsk
                       ELSE FlushedHistory]
         /\ appended = [g \in Conversations |-> IF g \in Groups THEN h ELSE History]
         /\ phase = [g \in Conversations |->
                        IF g \in Groups \/ cached THEN "appending" ELSE "fresh"]
    /\ pc = [m \in Msgs |-> "idle"]
    /\ ev = [m \in Msgs |-> NoEvent]
    /\ loc = [m \in Msgs |-> NoLoc]
    /\ out = [m \in Msgs |-> NoOut]
    /\ judge_calls = [m \in Msgs |-> 0]
    /\ reminders = [m \in Msgs |-> 0]
    /\ ops = 0
    /\ last = NoLast
    /\ held = [g \in Conversations |-> {}]
    /\ files = [g \in Conversations |-> NoFiles]
    /\ call = NoCall

\* the store operations of a run with two conversations
GroupsTick == ops < MaxGroupOps /\ StoreTick
GroupsAppend(g) == ops < MaxGroupOps /\ StoreAppend(g)
GroupsLoad(g) == ops < MaxGroupOps /\ StoreLoad(g)
GroupsFlush(g) == ops < MaxGroupOps /\ StoreFlush(g)
GroupsErase(g) == ops < MaxGroupOps /\ FilesErase(g)

NextGroups ==
    \/ GroupsTick
    \/ \E g \in Conversations : GroupsAppend(g)
    \/ \E g \in Conversations : GroupsLoad(g)
    \/ \E g \in Conversations : GroupsFlush(g)
    \/ \E g \in Conversations : GroupsErase(g)
    \/ Receive(1)
    \/ EmbeddingReturns(1)
    \/ DownloadReturns(1)
    \/ JudgeReturns(1)
    \/ SendReminder(1)

SpecGroups == InitGroups /\ [][NextGroups]_vars

(***************************************************************************)
(* _extract_content in the pipeline: one message whose text and images are *)
(* drawn at the start, each image with what _image_to_text makes of it     *)
(***************************************************************************)
\* images in one message
MaxImages == 2
\* what _image_to_text returns for an image: None because the vision model
\* classified it as a sticker, None because the call failed, or a description
ImageKinds == {"sticker", "failed", "described"}
ImageSeqs == UNION {[1..n -> ImageKinds] : n \in 0..MaxImages}

\* the loop over urls in _extract_content from image i on: the position of
\* the first image _image_to_text describes, 0 if there is none
RECURSIVE FirstDescribed(_, _)
FirstDescribed(images, i) ==
    IF i > Len(images) THEN 0
    ELSE IF images[i] = "described" THEN i
    ELSE FirstDescribed(images, i + 1)

\* faulty variant of ExtractContent: without a description the url of the
\* first image is returned with the text
ExtractContentKeepsUrl(text, images) ==
    IF FirstDescribed(images, 1) > 0
    THEN [none |-> FALSE, image_url |-> FirstDescribed(images, 1)]
    ELSE IF text = "none" THEN [none |-> TRUE, image_url |-> 0]
    ELSE [none |-> FALSE, image_url |-> IF images = <<>> THEN 0 ELSE 1]

\* _extract_content(event): None, or the content with the position of the
\* image whose url is returned (0 for None)
ExtractContent(text, images) ==
    IF FirstDescribed(images, 1) > 0
    THEN [none |-> FALSE, image_url |-> FirstDescribed(images, 1)]
    ELSE IF text = "none" THEN [none |-> TRUE, image_url |-> 0]
    ELSE [none |-> FALSE, image_url |-> 0]

InitExtract ==
    /\ now = 1
    /\ ticks = 0
    /\ config \in Configs
    /\ \E h \in Histories :
         /\ cache = [g \in Groups |-> StoreAfter(h).entry]
         /\ disk = [g \in Groups |-> StoreAfter(h).dsk]
         /\ appended = [g \in Groups |-> h]
    /\ pc = [m \in Msgs |-> "idle"]
    /\ ev = [m \in Msgs |-> NoEvent]
    /\ loc = [m \in Msgs |-> NoLoc]
    /\ out = [m \in Msgs |-> NoOut]
    /\ judge_calls = [m \in Msgs |-> 0]
    /\ reminders = [m \in Msgs |-> 0]
    /\ ops = 0
    /\ phase = [g \in Groups |-> "appending"]
    /\ last = NoLast
    /\ held = [g \in Groups |-> {}]
    /\ files = [g \in Groups |-> NoFiles]
    /\ call \in [fn : {"on_group_message"}, group : Groups \cup BlockedGroups,
                 sender_id : Senders, text : TextKinds, images : ImageSeqs]

\* on_group_message for the message drawn at the start, up to the await of
\* _get_embedding
ReceiveExtracted(m) ==
    /\ pc[m] = "idle"
    /\ LET e == [group |-> call.group, sender_id |-> call.sender_id,
                 text |-> call.text, image |-> call.images # <<>>]
           result == ExtractContent(call.text, call.images)
       IN IF call.group \in BlockedGroups
          THEN Filtered(m, [NoEvent EXCEPT !.group = call.group], "blocked")
          ELSE IF result.none
          THEN Filtered(m, e, "no_content")
          ELSE AfterExtract(m, e, result.image_url > 0)

NextExtract ==
    \/ Tick
    \/ ReceiveExtracted(1)
    \/ EmbeddingReturns(1)
    \/ DownloadReturns(1)
    \/ JudgeReturns(1)
    \/ SendReminder(1)

SpecExtract == InitExtract /\ [][NextExtract]_vars

(***************************************************************************)
(* Properties                                                              *)
(***************************************************************************)
\* the task of message m has returned after the store was touched
Resolved(m) == pc[m] \in {"remind", "done"}

\* how many records with this id a list holds
CountId(messages, id) ==
    Cardinality({i \in 1..Len(messages) : messages[i].id = id})

\* the ways through on_group_message after fingerprinting
Paths == {"no_match", "self_repost", "sender_count", "cooldown", "judge", "judge_off"}

\* the list message m was matched against, with its own record at the end
Snapshot(m) == Append(out[m].messages, out[m].msg)

\* seconds between the record of m and the record it matched
Elapsed(m) == out[m].msg.timestamp - out[m].matched_msg.timestamp

\* no reminder was or will be yielded for m
Silent(m) == pc[m] # "remind" /\ reminders[m] = 0

\* C1: a message that reaches fingerprinting is passed to _append_message
\* exactly once whatever path it takes (no match, self-repost, sender count,
\* cooldown, judgment with any outcome, judgment disabled), and not before
\* matching, the gates and the judgment are over: while its task is suspended
\* at the embedding, the download or the judgment call nothing of it is in
\* the store's append log.
AppendedExactlyOnce ==
    \A m \in Msgs :
        /\ pc[m] \in Suspended => \A g \in Groups : CountId(appended[g], m) = 0
        /\ Resolved(m) =>
             /\ out[m].path \in Paths
             /\ CountId(appended[out[m].group], m) = 1
             /\ \E i \in 1..Len(appended[out[m].group]) :
                    appended[out[m].group][i] = out[m].msg

\* one message was stopped by the cooldown, another went through a judgment
\* call that raised; both are in the append log once
AppendedOnEveryPathWitness ==
    \E m, k \in Msgs :
        /\ Resolved(m) /\ out[m].path = "cooldown"
        /\ Resolved(k) /\ out[k].path = "judge" /\ out[k].judge.kind = "exception"
        /\ CountId(appended[out[m].group], m) = 1
        /\ CountId(appended[out[k].group], k) = 1

RecordedMatchingSenders(m) ==
    IF out[m].match_type = "embedding"
    THEN UniqueSenders(out[m].messages, out[m].msg.embedding, config.similarity_threshold)
    ELSE UniqueSendersByHash(out[m].messages, out[m].msg.image_hash,
                             config.image_hash_threshold)

\* the same over the records and the new record itself
SnapshotMatchingSenders(m) ==
    IF out[m].match_type = "embedding"
    THEN UniqueSenders(Snapshot(m), out[m].msg.embedding, config.similarity_threshold)
    ELSE UniqueSendersByHash(Snapshot(m), out[m].msg.image_hash,
                             config.image_hash_threshold)

\* C3 as stated: whenever fewer than min_unique_senders (3) distinct senders
\* among the already recorded records match the new message's fingerprint,
\* the pipeline resolves silent, whoever the new sender is.
SilentBelowRecordedSenderCount ==
    \A m \in Msgs :
        (/\ Resolved(m)
         /\ out[m].matched_msg # NoRecord
         /\ Cardinality(RecordedMatchingSenders(m)) < config.min_unique_senders)
        => Silent(m)

\* C3: whenever fewer than min_unique_senders (3) distinct senders match the
\* new message's fingerprint, counted over the already recorded records and
\* the new message itself, the pipeline resolves silent without a judgment
\* call.
SilentBelowSnapshotSenderCount ==
    \A m \in Msgs :
        (/\ Resolved(m) \/ pc[m] = "judge"
         /\ out[m].matched_msg # NoRecord
         /\ Cardinality(SnapshotMatchingSenders(m)) < config.min_unique_senders)
        => /\ Silent(m)
           /\ judge_calls[m] = 0
           /\ out[m].should_remind = "false"

\* two senders in all match, the new one differs from the matched one, the
\* cooldown is over and judgment is off: only the count keeps the message silent
SenderCountGateWitness ==
    \E m \in Msgs :
        /\ Resolved(m)
        /\ out[m].path = "sender_count"
        /\ Cardinality(SnapshotMatchingSenders(m)) = 2
        /\ config.min_unique_senders = DEFAULT_MIN_UNIQUE_SENDERS
        /\ out[m].msg.sender_id # out[m].matched_msg.sender_id
        /\ Elapsed(m) >= config.cooldown_seconds
        /\ ~config.enable_llm_judge
        /\ Silent(m)

\* the ways a judgment call ends without the expected JSON object
JudgeFailures ==
    {"no_provider_id", "provider_not_found", "exception", "empty", "json_other",
     "not_json"}

TextMatchOf(m) ==
    IF out[m].msg.embedding = <<>> THEN NoRecord
    ELSE FindBestMatch(Snapshot(m), out[m].msg.embedding,
                       config.similarity_threshold, 1).best_msg

ImageMatchOf(m) ==
    IF out[m].msg.image_hash = <<>> THEN NoRecord
    ELSE FindSimilarImage(Snapshot(m), out[m].msg.image_hash,
                          config.image_hash_threshold, 1).best_msg

BothMatched(m) ==
    Resolved(m) /\ TextMatchOf(m) # NoRecord /\ ImageMatchOf(m) # NoRecord

SelectedText(m) ==
    /\ out[m].match_type = "embedding"
    /\ out[m].matched_msg = TextMatchOf(m)
    /\ out[m].unique_count =
         Cardinality(UniqueSenders(Snapshot(m), out[m].msg.embedding,
                                   config.similarity_threshold))

SelectedImage(m) ==
    /\ out[m].match_type = "image_hash"
    /\ out[m].matched_msg = ImageMatchOf(m)
    /\ out[m].unique_count =
         Cardinality(UniqueSendersByHash(Snapshot(m), out[m].msg.image_hash,
                                         config.image_hash_threshold))

\* C5 as stated: when both a text match and an image match are found, the
\* image match is selected unless the text-matched record is strictly
\* earlier; on the same record or equal timestamps the image match is
\* selected and the senders are counted over image fingerprints.
ImageMatchPreferred ==
    \A m \in Msgs :
        BothMatched(m) =>
            IF TextMatchOf(m).timestamp < ImageMatchOf(m).timestamp
            THEN SelectedText(m) ELSE SelectedImage(m)

\* C5: when both a text match and an image match are found, the text match
\* is selected unless the image-matched record is strictly earlier; on the
\* same record or equal timestamps the text match is selected and the
\* senders are counted over text fingerprints.
TextMatchPreferred ==
    \A m \in Msgs :
        BothMatched(m) =>
            IF ImageMatchOf(m).timestamp < TextMatchOf(m).timestamp
            THEN SelectedImage(m) ELSE SelectedText(m)

\* both matchers found the same record and the text match was selected
SameRecordMatchedWitness ==
    \E m \in Msgs :
        /\ BothMatched(m)
        /\ TextMatchOf(m) = ImageMatchOf(m)
        /\ SelectedText(m)

\* C6: when the sender of the new message is the sender of the selected
\* matched record, the pipeline resolves silent without a judgment call,
\* whatever the distinct-sender count and the elapsed time, and the record is
\* appended.
SelfRepostIsSilent ==
    \A m \in Msgs :
        (/\ Resolved(m) \/ pc[m] = "judge"
         /\ out[m].matched_msg # NoRecord
         /\ out[m].msg.sender_id = out[m].matched_msg.sender_id)
        => /\ pc[m] = "done"
           /\ reminders[m] = 0
           /\ judge_calls[m] = 0
           /\ out[m].should_remind = "false"
           /\ CountId(appended[out[m].group], m) = 1

\* a sender repeats their own record when enough senders match and the
\* cooldown is over
SelfRepostWitness ==
    \E m \in Msgs :
        /\ Resolved(m)
        /\ out[m].matched_msg # NoRecord
        /\ out[m].msg.sender_id = out[m].matched_msg.sender_id
        /\ out[m].unique_count >= config.min_unique_senders
        /\ Elapsed(m) >= config.cooldown_seconds
        /\ Silent(m)

\* a match from another sender with enough distinct senders
PassedSenderGates(m) ==
    /\ out[m].matched_msg # NoRecord
    /\ out[m].msg.sender_id # out[m].matched_msg.sender_id
    /\ out[m].unique_count >= config.min_unique_senders

\* C7: given a match from a different sender and a sufficient sender count,
\* the pipeline resolves silent when the time since the selected matched
\* record is below cooldown_seconds, and resolves remind when it is at least
\* cooldown_seconds and judgment is disabled.
CooldownGate ==
    \A m \in Msgs :
        (Resolved(m) /\ PassedSenderGates(m)) =>
            /\ Elapsed(m) < config.cooldown_seconds =>
                 /\ Silent(m)
                 /\ judge_calls[m] = 0
                 /\ out[m].should_remind = "false"
            /\ (Elapsed(m) >= config.cooldown_seconds /\ ~config.enable_llm_judge) =>
                 /\ out[m].should_remind = "true"
                 /\ pc[m] = "remind" \/ reminders[m] = 1

\* a reminder went out exactly cooldown_seconds after the matched record
CooldownElapsedWitness ==
    \E m \in Msgs :
        /\ Resolved(m) /\ PassedSenderGates(m)
        /\ ~config.enable_llm_judge
        /\ Elapsed(m) = config.cooldown_seconds
        /\ reminders[m] = 1

\* C8: _judge_remind is called at most once per message, and only when a
\* match was found, the self-repost, sender-count and cooldown gates have
\* passed and enable_llm_judge is true; with judgment disabled it is never
\* called and a message that passes the gates gets should_remind = true.
JudgeOnlyAfterGates ==
    \A m \in Msgs :
        /\ judge_calls[m] <= 1
        /\ judge_calls[m] > 0 =>
             /\ config.enable_llm_judge
             /\ PassedSenderGates(m)
             /\ Elapsed(m) >= config.cooldown_seconds
        /\ ~config.enable_llm_judge =>
             /\ judge_calls[m] = 0
             /\ pc[m] # "judge"
             /\ (/\ Resolved(m) /\ PassedSenderGates(m)
                 /\ Elapsed(m) >= config.cooldown_seconds)
                => out[m].should_remind = "true"

\* a task is suspended in its one judgment call
JudgePendingWitness ==
    \E m \in Msgs :
        /\ pc[m] = "judge"
        /\ judge_calls[m] = 1
        /\ PassedSenderGates(m)
        /\ Elapsed(m) >= config.cooldown_seconds

\* C9: the record of the message being handled is never its own match: the
\* matched record is one that was appended to the store before the
\* message's own record, also when other messages of the conversation are
\* appended while the task is suspended.
NeverOwnMatch ==
    \A m \in Msgs :
        (/\ Resolved(m) \/ pc[m] = "judge"
         /\ out[m].matched_msg # NoRecord)
        => /\ out[m].matched_msg.id # m
           /\ out[m].matched_idx \in 1..Len(out[m].messages)
           /\ \E i \in 1..Len(appended[out[m].group]) :
                /\ appended[out[m].group][i] = out[m].matched_msg
                /\ \A j \in 1..Len(appended[out[m].group]) :
                     appended[out[m].group][j].id = m => i < j

\* message 1 matched the record of message 2, which arrived later and was
\* appended while the task of message 1 was suspended
MatchedLaterArrivalWitness ==
    /\ Resolved(1)
    /\ out[1].matched_msg.id = 2
    /\ out[1].matched_msg # out[1].msg

\* C10 as stated: a load with an empty cache after a flush returns exactly
\* the appended records newer than now - retention_days * 86400, field for
\* field, in ascending timestamp order.
ColdLoadReturnsRetained ==
    (last.op = "load" /\ last.cold) =>
        last.ret = SelectSeq(SortByTimestamp(appended[last.group]),
                             LAMBDA r : r.timestamp > Cutoff(last.at))

\* the records of a list made after the retention horizon of time t
Retained(messages, t) ==
    SelectSeq(messages, LAMBDA r : r.timestamp > t - data_retention_days * DaySeconds)

\* C11: a load that finds a cache entry last loaded on an earlier calendar
\* day returns, and leaves in the cache, exactly the cached records with a
\* timestamp greater than now - retention_days * 86400, in their order, and
\* sets the load timestamp to now; a load on the day of the last load
\* returns the cached records, the older ones included, and changes nothing.
RolloverLoadEvicts ==
    (last.op = "load" /\ last.before.present) =>
        IF DateStr(last.before.last_load) # DateStr(last.at)
        THEN /\ last.ret = Retained(last.before.messages, last.at)
             /\ cache[last.group] = Entry(last.ret, last.at)
        ELSE /\ last.ret = last.before.messages
             /\ cache[last.group] = last.before

\* a load after a day rollover evicted some of the cached records and kept
\* the others
RolloverLoadEvictsWitness ==
    /\ last.op = "load" /\ last.before.present
    /\ DateStr(last.before.last_load) # DateStr(last.at)
    /\ last.ret # <<>>
    /\ Len(last.ret) < Len(last.before.messages)

\* the cached records of a calendar day that the day's partition does not hold
Unwritten(g, d) ==
    LET on_disk == IF d \in DOMAIN disk[g] THEN JsonLoadAll(disk[g][d]) ELSE <<>>
    IN {i \in 1..Len(cache[g].messages) :
           /\ DateStr(cache[g].messages[i].timestamp) = d
           /\ \A j \in 1..Len(on_disk) : on_disk[j] # cache[g].messages[i]}

\* the calendar days of the cached records of a group
CachedDays(g) ==
    {DateStr(cache[g].messages[i].timestamp) : i \in 1..Len(cache[g].messages)}

\* C12 as stated: at every moment, for every group and calendar day, fewer
\* than 10 cached records of the day are missing from the day's partition.
UnwrittenBelowBatch ==
    \A g \in Groups : \A d \in CachedDays(g) :
        Cardinality(Unwritten(g, d)) < BatchSize

\* the partition of a day, read back
Partition(dsk, d) == IF d \in DOMAIN dsk THEN JsonLoadAll(dsk[d]) ELSE <<>>

\* C13: _append_message puts the record at the end of the cached list (an
\* absent entry counts as empty); it writes if and only if the cached
\* records of the record's calendar day, the record included, number 1 or a
\* multiple of 10; the write leaves exactly those records in that day's
\* partition; every other partition, and without a write every partition,
\* stays as it was.
AppendWritesInBatches ==
    [][\A g \in Groups :
          (last'.op = "append" /\ Len(appended'[g]) = Len(appended[g]) + 1) =>
              LET message == appended'[g][Len(appended'[g])]
                  d == DateStr(message.timestamp)
                  today == DayMessages(cache'[g].messages, d)
                  writes == Len(today) = 1 \/ Len(today) % 10 = 0
              IN /\ cache'[g].present
                 /\ cache'[g].messages = Append(cache[g].messages, message)
                 /\ \A e \in (DOMAIN disk[g]) \ {d} :
                        e \in DOMAIN disk'[g] /\ disk'[g][e] = disk[g][e]
                 /\ (DOMAIN disk'[g]) \ {d} = (DOMAIN disk[g]) \ {d}
                 /\ IF writes
                    THEN d \in DOMAIN disk'[g] /\ Partition(disk'[g], d) = today
                    ELSE disk'[g] = disk[g]]_vars

\* an append has made the day's count 20 and the partition holds the 20
\* records
AppendWritesInBatchesWitness ==
    /\ last.op = "append"
    /\ LET g == last.group
           message == cache[g].messages[Len(cache[g].messages)]
           d == DateStr(message.timestamp)
       IN /\ Len(DayMessages(cache[g].messages, d)) = 2 * BatchSize
          /\ Partition(disk[g], d) = DayMessages(cache[g].messages, d)

\* C14 as stated: a load issued after an erase of the group has completed,
\* with no message of the group in flight, returns the empty sequence,
\* whatever loads, appends and files of older versions came before.
LoadAfterEraseIsEmpty ==
    [][\A g \in Groups :
          (last.op = "erase" /\ last.group = g
           /\ last'.op \in {"load", "load_fault"} /\ last'.group = g
           /\ last' # last)
              => last'.ret = <<>>]_vars

\* the step is damage done to a partition from outside the program
DamageStep == last'.op = "corrupt" /\ now' = now /\ ops' # ops

\* C15 as stated: every write of a partition is atomic.  Whatever step the
\* program takes, with a failing write or a crash in it, a partition is
\* afterwards readable as a whole unless it was unreadable before, and a
\* failed write of _append_message leaves every partition as it was.
PartitionWritesAtomic ==
    [][\A g \in Groups :
          /\ \A d \in DOMAIN disk'[g] :
                (~Readable(disk'[g][d]) /\ ~DamageStep)
                    => (d \in DOMAIN disk[g] /\ ~Readable(disk[g][d]))
          /\ (last'.op = "append_fault" /\ now' = now /\ ops' # ops)
                => disk'[g] = disk[g]]_vars

\* C16 as stated: the cached list of every group is in non-decreasing
\* timestamp order in every reachable state, also while several tasks of
\* on_group_message for the group are suspended at their external calls.
CacheOrderedByTimestamp ==
    \A g \in Groups :
        \A i, j \in 1..Len(cache[g].messages) :
            i < j => cache[g].messages[i].timestamp <= cache[g].messages[j].timestamp

\* the step is a call of _load_messages (completed, failed or cut short by
\* a crash)
LoadStep ==
    /\ last'.op \in {"load", "load_fault", "load_raised", "crash"}
    /\ now' = now /\ ops' # ops

\* the single-file store of g is gone after the step and its backup holds
\* what it held, its records lying in the day partitions
LegacyMovedToBackup(g) ==
    (files[g].legacy.exists /\ ~files'[g].legacy.exists) =>
        /\ files'[g].bak = files[g].legacy
        /\ \A d \in DaysOf(files[g].legacy.data) :
              /\ d \in DOMAIN disk'[g]
              /\ d \notin DOMAIN files[g].plain =>
                    disk'[g][d] = SelectSeq(files[g].legacy.data,
                                            LAMBDA o : DateStr(o.timestamp) = d)

\* C17 as stated: a load that finds a single-file store or an uncompressed
\* day partition writes its records to compressed partitions and the
\* original file still exists afterwards (the single file as its backup).
OriginalKeptAfterMigration ==
    [][\A g \in Groups :
          LoadStep =>
              /\ LegacyMovedToBackup(g)
              /\ \A d \in DOMAIN files[g].plain : d \in DOMAIN files'[g].plain]_vars

\* C17 amended: the single-file store is never deleted: once its records are
\* written to compressed partitions it is kept as the backup file.  An
\* uncompressed day partition is removed, without a backup, once its
\* compressed copy has been written in full.
LegacyKeptPlainReplaced ==
    [][\A g \in Groups :
          LoadStep =>
              /\ LegacyMovedToBackup(g)
              /\ \A d \in DOMAIN files[g].plain :
                    d \notin DOMAIN files'[g].plain =>
                        (d \in DOMAIN disk'[g] /\ disk'[g][d] = files[g].plain[d])]_vars

\* a load has migrated the single-file store: the backup holds the two old
\* records and the partition of day 0 holds them too
LegacyKeptWitness ==
    \E g \in Groups :
        /\ last.op = "load" /\ last.cold
        /\ ~files[g].legacy.exists
        /\ files[g].bak = File(JsonDumpAll(History))
        /\ 0 \in DOMAIN disk[g] /\ disk[g][0] = JsonDumpAll(History)

\* the step is a call of _flush_cache for group g
FlushStep(g) ==
    last'.op = "flush" /\ last'.group = g /\ now' = now /\ ops' # ops

\* C18: _flush_cache leaves the cache as it is; with no cache entry or an
\* empty one it changes nothing on disk; otherwise every calendar day that
\* has cached records gets a partition holding exactly the cached records
\* of that day and the other partitions stay as they were; a flush that
\* follows a flush with no operation between them changes nothing.
FlushWritesEveryCachedDay ==
    [][\A g \in Groups :
          FlushStep(g) =>
              /\ cache' = cache
              /\ IF ~cache[g].present \/ cache[g].messages = <<>>
                 THEN disk'[g] = disk[g]
                 ELSE /\ DOMAIN disk'[g] = (DOMAIN disk[g]) \cup CachedDays(g)
                      /\ \A d \in CachedDays(g) :
                            Partition(disk'[g], d) = DayMessages(cache[g].messages, d)
                      /\ \A d \in (DOMAIN disk[g]) \ CachedDays(g) :
                            disk'[g][d] = disk[g][d]
              /\ (last.op = "flush" /\ last.group = g) => disk' = disk]_vars

\* a flush ran with records of two calendar days in the cache, and the
\* partition of day 0 now holds its two records, the second of which no
\* append had written
FlushWritesEveryCachedDayWitness ==
    \E g \in Groups :
        /\ last.op = "flush" /\ last.group = g
        /\ Cardinality(CachedDays(g)) = 2
        /\ Len(Partition(disk[g], 0)) = 2
        /\ \A d \in CachedDays(g) :
              Partition(disk[g], d) = DayMessages(cache[g].messages, d)

\* the days of a directory whose partition can be read and lies within the
\* days a load at time t looks at
ReadableValidDays(dsk, t) ==
    {d \in (DOMAIN dsk) \cap ValidDates(t) : Readable(dsk[d])}

\* C19 as stated: no storage failure of a load leaves the store as an
\* exception, and a load from disk that meets unreadable partitions (and no
\* other failure) returns, sorted by timestamp, exactly the records of the
\* readable partitions of the days it looks at.
ColdLoadSkipsUnreadable ==
    /\ last.op # "load_raised"
    /\ (last.op = "load" /\ last.cold) =>
          last.ret = SortByTimestamp(
                         ReadPartitions(disk[last.group],
                                        ReadableValidDays(disk[last.group], last.at)))

\* the reasons on_group_message returns before the store is touched
FilterReasons == {"blocked", "no_content", "short", "ignore_regex", "command"}

\* the task of message m has returned
Returned(m) == pc[m] = "filtered" \/ Resolved(m)

\* C20 as stated: a message of an enabled group that carries an image the
\* vision provider gave no description for (and whose text, if any, is not
\* an ignored pattern or a command) is still handled to Resolved and its
\* record is appended.
UndescribedStillRecorded ==
    \A m \in Msgs :
        (/\ Returned(m)
         /\ out[m].group \in Groups
         /\ out[m].undescribed
         /\ out[m].path \notin {"ignore_regex", "command"})
        => /\ Resolved(m)
           /\ CountId(appended[out[m].group], m) = 1

\* what a returned task shows of the providers: a dropped message was
\* dropped by a content filter and left no record; a resolved message has its
\* record appended once, and an image without description, an absent
\* embedding and a failed judgment count as no image, no text match and (but
\* for the marker of an unparsable response) no consent
DegradedToAbsent(m) ==
    /\ pc[m] = "filtered" =>
          /\ out[m].path \in FilterReasons
          /\ out[m].undescribed => out[m].path # "blocked"
          /\ \A g \in Groups : CountId(appended[g], m) = 0
    /\ Resolved(m) =>
          /\ CountId(appended[out[m].group], m) = 1
          /\ out[m].undescribed =>
                /\ ~out[m].msg.has_image
                /\ ~out[m].msg.cached_image
                /\ out[m].msg.image_hash = <<>>
                /\ out[m].match_type # "image_hash"
          /\ out[m].msg.embedding = <<>> => out[m].match_type # "embedding"
          /\ (out[m].path = "judge" /\ out[m].judge.kind \in JudgeFailures) =>
                /\ out[m].should_remind \in {"true", "false"}
                /\ out[m].should_remind = "true" => out[m].judge.marker

\* C20: no provider failure (embedding, vision, judgment) ends a task once
\* the content filters are behind it: a task suspended at a provider call
\* stays so or is Resolved, with its record appended once and the failed
\* feature counted as absent or as false.  A failed image description leaves
\* the message with its text alone, so a message without text, or with text
\* shorter than min_text_length, is then dropped by the content filters and
\* leaves no record.
ProviderFailureDegrades ==
    /\ [](\A m \in Msgs : DegradedToAbsent(m))
    /\ [][\A m \in Msgs :
             pc[m] \in Suspended => pc'[m] \in Suspended \cup {"remind", "done"}]_vars

\* a message with text and an image that was not described, whose embedding
\* call failed too, is Resolved with its record appended, and so is another
\* whose judgment call raised
ProviderFailureWitness ==
    \E m, k \in Msgs :
        /\ Resolved(m) /\ out[m].undescribed
        /\ out[m].msg.embedding = <<>>
        /\ CountId(appended[out[m].group], m) = 1
        /\ Resolved(k) /\ out[k].path = "judge" /\ out[k].judge.kind = "exception"
        /\ out[k].should_remind = "false"
        /\ CountId(appended[out[k].group], k) = 1

\* the cache entry of g was loaded (or made) on the calendar day of now
LoadedToday(g) ==
    cache[g].present /\ DateStr(cache[g].last_load) = DateStr(now)

\* the step is a completed call of _load_messages for group g
LoadStepOf(g) ==
    last'.op = "load" /\ last'.group = g /\ now' = now /\ ops' # ops

\* C21: a load leaves a cache entry loaded today; while the calendar day
\* lasts and the entry stays in the cache (no restart), it stays loaded
\* today, and every further load returns the cached list as it is, whatever
\* the directory holds, and changes neither cache nor directory; so a load
\* removes records from a cache entry only when the entry was not loaded
\* today, at most once per calendar day.
SameDayLoadHitsCache ==
    [][\A g \in Groups :
          /\ LoadStepOf(g) => LoadedToday(g)'
          /\ (LoadedToday(g) /\ DateStr(now') = DateStr(now) /\ cache'[g].present)
                => LoadedToday(g)'
          /\ (LoadStepOf(g) /\ LoadedToday(g)) =>
                /\ last'.ret = cache[g].messages
                /\ cache' = cache
                /\ disk' = disk
          /\ (LoadStepOf(g) /\ cache[g].present
                /\ cache'[g].messages # cache[g].messages) => ~LoadedToday(g)]_vars

\* a load on the day of the last load returned the cached records although
\* the directory holds fewer records than the cache
SameDayLoadHitsCacheWitness ==
    \E g \in Groups :
        /\ last.op = "load" /\ last.group = g
        /\ last.before.present
        /\ DateStr(last.before.last_load) = DateStr(last.at)
        /\ last.at > last.before.last_load
        /\ last.ret = cache[g].messages
        /\ Len(LoadMessagesFromDisk(disk[g], last.at).messages) < Len(last.ret)

\* one of the two matchers has been called
MatcherCalled == call.fn \in {"find_best_match", "find_similar_image"}

\* the similarity of the query of the call to record i of its list
SimTo(i) ==
    IF call.query \in Vectors THEN Cosine(call.query, call.messages[i].embedding)
    ELSE HashSim(call.query, call.messages[i].image_hash)

\* the records the matcher of the call compares the query with: those of
\* records[0 .. len - excludeRecent) with a text fingerprint of the query's
\* dimension, or with an image hash
Scanned ==
    {i \in 1..(Len(call.messages) - call.exclude_recent) :
        IF call.query \in Vectors
        THEN /\ call.messages[i].embedding # <<>>
             /\ Len(call.messages[i].embedding) = Len(call.query)
        ELSE call.messages[i].image_hash # <<>>}

\* the scanned records whose similarity reaches the threshold of the call
Qualifying == {i \in Scanned : SimTo(i) >= call.threshold}

\* C22: after _find_best_match or _find_similar_image, best_sim is the
\* highest similarity of a scanned record; a record is returned if and only
\* if the similarity of some scanned record reaches the threshold, and it is
\* the earliest of the qualifying records with the highest similarity; for
\* every threshold from 0 to 1.
BestMatchIsHighestQualifying ==
    MatcherCalled =>
        /\ \A i \in Scanned : call.result.best_sim >= SimTo(i)
        /\ Scanned # {} => \E i \in Scanned : call.result.best_sim = SimTo(i)
        /\ (call.result.best_msg # NoRecord) <=> (Qualifying # {})
        /\ Qualifying # {} =>
              /\ call.result.best_idx \in Qualifying
              /\ call.result.best_msg = call.messages[call.result.best_idx]
              /\ \A i \in Qualifying :
                    /\ SimTo(i) <= SimTo(call.result.best_idx)
                    /\ SimTo(i) = SimTo(call.result.best_idx)
                          => i >= call.result.best_idx

\* the fingerprint of the queried kind that record i of the call's list holds
StoredPrint(i) ==
    IF call.query \in Vectors THEN call.messages[i].embedding
    ELSE call.messages[i].image_hash

\* record i holds a fingerprint of the queried kind with the dimension (the
\* length) of the query
Comparable(i) ==
    StoredPrint(i) # <<>> /\ Len(StoredPrint(i)) = Len(call.query)

\* C23: a record whose fingerprint of the queried kind is absent or of
\* another dimension or length than the query is never returned by a
\* matcher, and its sender is in the result of a sender count only if a
\* record with a comparable fingerprint reaching the threshold has the same
\* sender; every call returns.
MismatchedNeverMatches ==
    /\ MatcherCalled =>
          (call.result.best_msg # NoRecord =>
              /\ call.result.best_idx \in 1..Len(call.messages)
              /\ Comparable(call.result.best_idx))
    /\ call.fn \in {"count_unique_senders", "count_unique_senders_by_hash"} =>
          /\ call.result.count = Cardinality(call.result.senders)
          /\ call.result.senders =
                {call.messages[i].sender_id : i \in
                    {j \in 1..Len(call.messages) :
                        Comparable(j) /\ SimTo(j) >= call.threshold}}

\* the number of bits in which two hex digits differ
DigitDiff(a, b) ==
    Cardinality({i \in 0..3 : ((a \div (2^i)) % 2) # ((b \div (2^i)) % 2)})

\* the Hamming distance of two strings of hex digits of equal length
Hamming(h1, h2) ==
    SumSeq([i \in 1..Len(h1) |-> DigitDiff(h1[i], h2[i])])

\* the string is made of hex digits only
PlainHex(h) == \A i \in 1..Len(h) : h[i] \in HexDigits

\* the hex digits of a string without its underscores, with zeros put in
\* front up to the length of the string
ZeroFilled(h) ==
    LET digits == SelectSeq(h, LAMBDA c : c \in HexDigits)
        pad == Len(h) - Len(digits)
    IN [i \in 1..Len(h) |-> IF i <= pad THEN 0 ELSE digits[i - pad]]

\* 1 - Hamming distance / bit length, scaled
HammingSimilarity(h1, h2) ==
    (SimScale * (Len(h1) * 4 - Hamming(h1, h2))) \div (Len(h1) * 4)

\* C24 as stated: _hash_similarity returns a value within [0, 1], the same
\* for both orders of its arguments; 1 - Hamming distance / bit length for
\* two strings of hex digits of equal length (1.0 for equal hashes, 0.0 for
\* bit-complementary ones); 0.0 when the lengths differ, when a hash is
\* empty and when a hash is not a string of hex digits.
HashSimilarityIsHamming ==
    call.fn = "hash_similarity" =>
        /\ call.result \in 0..SimScale
        /\ call.result = HashSimilarity(call.other, call.query)
        /\ IF \/ call.query = <<>> \/ call.other = <<>>
              \/ Len(call.query) # Len(call.other)
              \/ ~PlainHex(call.query) \/ ~PlainHex(call.other)
           THEN call.result = 0
           ELSE /\ call.result = HammingSimilarity(call.query, call.other)
                /\ call.query = call.other => call.result = SimScale
                /\ (\A i \in 1..Len(call.query) : call.query[i] + call.other[i] = 15)
                      => call.result = 0

\* C24: _hash_similarity returns a value within [0, 1], the same for both
\* orders of its arguments; 0.0 when the lengths differ, when a hash is empty
\* and when int(hash, 16) rejects a hash; otherwise 1 - Hamming distance /
\* bit length of the two hashes read as numbers of 4 bits per character: for
\* strings of hex digits that is the Hamming distance of the strings (1.0
\* for equal hashes, 0.0 for bit-complementary ones), and a string with an
\* underscore between two digits, which int() accepts, counts as its digits
\* with zeros in front.
HashSimilarityIsHammingOfParsed ==
    call.fn = "hash_similarity" =>
        /\ call.result \in 0..SimScale
        /\ call.result = HashSimilarity(call.other, call.query)
        /\ IF \/ call.query = <<>> \/ call.other = <<>>
              \/ Len(call.query) # Len(call.other)
              \/ ~IntParses(call.query) \/ ~IntParses(call.other)
           THEN call.result = 0
           ELSE /\ call.result =
                      HammingSimilarity(ZeroFilled(call.query), ZeroFilled(call.other))
                /\ call.query = call.other => call.result = SimScale
                /\ (/\ PlainHex(call.query) /\ PlainHex(call.other)
                    /\ \A i \in 1..Len(call.query) : call.query[i] + call.other[i] = 15)
                      => call.result = 0

\* two hashes of three hex digits that differ in some bits and agree in
\* others got a similarity strictly between 0 and 1
HashSimilarityWitness ==
    /\ call.fn = "hash_similarity"
    /\ Len(call.query) = MaxHashLen /\ Len(call.other) = MaxHashLen
    /\ PlainHex(call.query) /\ PlainHex(call.other)
    /\ 0 < call.result /\ call.result < SimScale
    /\ call.result = HammingSimilarity(call.query, call.other)

\* the step is a store operation on conversation g, or a stretch of the
\* task of a message of conversation g
OperatesOn(g) ==
    \/ last'.group = g /\ now' = now /\ ops' # ops
    \/ \E m \in Msgs :
          /\ pc'[m] # pc[m]
          /\ g \in {ev[m].group, ev'[m].group, out'[m].group}

\* C25: a load (with or without eviction), an append, a flush or an erase
\* of one conversation, and every stretch of the handling of one of its
\* messages, leaves the cache entry, the day partitions and the other files
\* of every other conversation as they were.
ConversationsIndependent ==
    [][\A g \in Conversations :
          OperatesOn(g) =>
              \A o \in Conversations \ {g} :
                  /\ cache'[o] = cache[o]
                  /\ disk'[o] = disk[o]
                  /\ files'[o] = files[o]]_vars

\* a message of the first conversation was handled and recorded, after
\* which that conversation was erased; the second conversation still has
\* the cache entry and the partitions it started with
ConversationsIndependentWitness ==
    /\ \E g \in Groups :
          /\ last.op = "erase" /\ last.group = g
          /\ ~cache[g].present /\ disk[g] = <<>>
          /\ Resolved(1) /\ out[1].group = g
    /\ cache[OtherGroup] = StoreAfter(History).entry
    /\ disk[OtherGroup] = StoreAfter(History).dsk
    /\ disk[OtherGroup] # FlushedHistory

\* the step calls _load_messages or _append_message for conversation g:
\* a store operation on g, or the stretch of a task of g that begins with the
\* load or ends with the append
StoreStepOf(g) ==
    \/ last'.group = g /\ now' = now /\ ops' # ops
    \/ \E m \in Msgs :
          \/ pc[m] = "idle" /\ pc'[m] = "embed" /\ ev'[m].group = g
          \/ pc[m] \in Suspended /\ Resolved(m)' /\ out'[m].group = g

\* the step is the stretch of a task with matching, sender count and
\* context building that ends at the judgment call, or the reminder
MatchingStep ==
    \E m \in Msgs :
        \/ pc[m] \in {"embed", "download"} /\ pc'[m] = "judge"
        \/ pc[m] = "remind" /\ pc'[m] = "done"

\* C26: the cache entry of a conversation changes only in a step that calls
\* the store for that conversation; a stretch of matching, sender counting
\* and context building changes no cache entry; a step leaves the list of an
\* existing cache entry as it is, or adds one record at its end, or removes
\* records from it (the others keeping their fields and their order), or
\* removes the entry; an entry that comes into being holds what the
\* partitions hold or the one record appended.
CacheChangedOnlyByStore ==
    [][/\ MatchingStep => cache' = cache
       /\ \A g \in Conversations :
             /\ cache'[g] # cache[g] => StoreStepOf(g)
             /\ cache[g].present =>
                   \/ ~cache'[g].present
                   \/ cache'[g].messages = cache[g].messages
                   \/ /\ Len(cache'[g].messages) = Len(cache[g].messages) + 1
                      /\ SubSeq(cache'[g].messages, 1, Len(cache[g].messages))
                            = cache[g].messages
                   \/ /\ Len(cache'[g].messages) < Len(cache[g].messages)
                      /\ cache'[g].messages =
                            SelectSeq(cache[g].messages,
                                      LAMBDA r : \E i \in 1..Len(cache'[g].messages) :
                                                    cache'[g].messages[i] = r)
             /\ (~cache[g].present /\ cache'[g].present) =>
                   \/ cache'[g].messages = LoadMessagesFromDisk(disk[g], now).messages
                   \/ Len(cache'[g].messages) = 1]_vars

\* a message was matched against the cached history, passed the gates and
\* went through a judgment call; the cache holds the history as it was, with
\* the record of the message at its end
CacheChangedOnlyByStoreWitness ==
    \E g \in Groups :
        /\ Resolved(1) /\ out[1].group = g
        /\ out[1].path = "judge" /\ out[1].matched_msg # NoRecord
        /\ cache[g].messages = Append(History, out[1].msg)

\* C27: the administrative status query is read-only: a step of check_status
\* changes neither the record sequence cached for the conversation nor any
\* durable file of the conversation
StatusStep ==
    /\ ops' # ops
    /\ last'.op \in {"status", "status_raised", "status_denied"}

StatusKeepsCache ==
    \A g \in Groups :
        cache[g].present =>
            /\ cache'[g].present
            /\ cache'[g].messages = cache[g].messages

StatusKeepsFiles == disk' = disk /\ files' = files

StatusIsReadOnly == [][StatusStep => StatusKeepsCache /\ StatusKeepsFiles]_vars

\* the cases in which _get_embedding has no vector to give
EmbeddingFailures ==
    {"no_provider_id", "provider_not_found", "lookup_raised", "all_failed"}

\* what the task of m holds of its _get_embedding call once it has returned
EmbedNote(m) == IF pc[m] = "download" THEN loc[m].embed ELSE out[m].embed
EmbeddingOf(m) ==
    IF pc[m] = "download" THEN loc[m].embedding ELSE out[m].msg.embedding

\* the task of m is past its _get_embedding call
PastEmbedding(m) == pc[m] \in {"download", "judge", "remind", "done"}

\* a failed _get_embedding call gave an absent fingerprint, and without a
\* configured provider (or without the provider being found) no method of a
\* provider was called; the record of a resolved task is then in the append
\* log once, with an absent text fingerprint
FailedEmbeddingIsAbsent(m) ==
    (PastEmbedding(m) /\ EmbedNote(m).why \in EmbeddingFailures) =>
        /\ EmbeddingOf(m) = <<>>
        /\ EmbedNote(m).why \in {"no_provider_id", "provider_not_found", "lookup_raised"}
              => ~EmbedNote(m).called
        /\ Resolved(m) =>
              /\ CountId(appended[out[m].group], m) = 1
              /\ \E i \in 1..Len(appended[out[m].group]) :
                     /\ appended[out[m].group][i] = out[m].msg
                     /\ appended[out[m].group][i].embedding = <<>>

\* C28: _get_embedding returns None without raising when no provider id is
\* configured (no provider is then called), when the provider is not found
\* and when every call of the provider fails; the task goes on from the
\* await (to the image download, the judgment or its end, never back out of
\* the handler) and its record is appended with an absent text fingerprint
EmbeddingFailureIsAbsent ==
    /\ [](\A m \in Msgs : FailedEmbeddingIsAbsent(m))
    /\ [][\A m \in Msgs :
             (pc[m] = "embed" /\ pc'[m] # "embed") => PastEmbedding(m)']_vars

\* one message was handled without a configured provider, another with a
\* provider whose every call failed; both records are in the append log with
\* an absent text fingerprint
EmbeddingFailureWitness ==
    \E m, k \in Msgs :
        /\ Resolved(m) /\ Resolved(k)
        /\ out[m].embed = [why |-> "no_provider_id", called |-> FALSE]
        /\ out[k].embed = [why |-> "all_failed", called |-> TRUE]
        /\ out[m].msg.embedding = <<>> /\ out[k].msg.embedding = <<>>
        /\ CountId(appended[out[m].group], m) = 1
        /\ CountId(appended[out[k].group], k) = 1

\* the records the pipeline has made: those its tasks appended and those
\* held by a task that awaits the judgment
PipelineRecords ==
    UNION {{appended[g][i] : i \in {j \in 1..Len(appended[g]) : appended[g][j].id \in Msgs}} :
              g \in Groups}
    \cup {out[m].msg : m \in {k \in Msgs : pc[k] = "judge"}}

\* C29: every record the pipeline appends with has_image = false carries no
\* image fingerprint and no cached image path; an image fingerprint is found
\* only on records with has_image = true
NoImageNoFingerprint ==
    \A r \in PipelineRecords :
        /\ ~r.has_image => (r.image_hash = <<>> /\ ~r.cached_image)
        /\ r.image_hash # <<>> => r.has_image

\* one appended record of a message without image (no fingerprint, no path)
\* and one of a message with an image that was downloaded and hashed
NoImageNoFingerprintWitness ==
    \E g \in Groups : \E i, j \in 1..Len(appended[g]) :
        /\ appended[g][i].id \in Msgs /\ appended[g][j].id \in Msgs
        /\ ~appended[g][i].has_image
        /\ appended[g][i].image_hash = <<>> /\ ~appended[g][i].cached_image
        /\ appended[g][j].has_image
        /\ appended[g][j].image_hash # <<>> /\ appended[g][j].cached_image

\* the message drawn at the start carries images, and _image_to_text
\* classified every one of them as a sticker
OnlyStickers ==
    /\ call.images # <<>>
    /\ \A i \in 1..Len(call.images) : call.images[i] = "sticker"

\* the message is from an enabled conversation and the handler has begun
StickerMessageHandled(m) ==
    /\ m = 1 /\ pc[m] # "idle"
    /\ call.group \in Groups
    /\ OnlyStickers

\* what is seen of a message with only sticker images once it is handled:
\* without text it is dropped for want of content, with no record, match or
\* reminder; with text it is taken as that text alone, dropped only by the
\* filters on the text (too short, an ignored pattern, a command) and else
\* recorded without image, image fingerprint or cached image path
StickersLeaveNothing(m) ==
    StickerMessageHandled(m) =>
        /\ call.text = "none" =>
              /\ pc[m] = "filtered" /\ out[m].path = "no_content"
              /\ CountId(appended[call.group], m) = 0
              /\ out[m].matched_msg = NoRecord /\ out[m].match_type = "none"
              /\ reminders[m] = 0
        /\ call.text \in {"short", "ignored", "command"} =>
              /\ pc[m] = "filtered"
              /\ out[m].path = (IF call.text = "short" THEN "short"
                                ELSE IF call.text = "ignored" THEN "ignore_regex"
                                ELSE "command")
              /\ CountId(appended[call.group], m) = 0
        /\ call.text = "normal" =>
              /\ pc[m] \in {"embed", "judge", "remind", "done"}
              /\ ~loc[m].image_url
              /\ pc[m] \in {"judge", "remind", "done"} =>
                    /\ ~out[m].msg.has_image
                    /\ ~out[m].msg.cached_image
                    /\ out[m].msg.image_hash = <<>>
                    /\ out[m].match_type # "image_hash"
              /\ Resolved(m) =>
                    /\ CountId(appended[call.group], m) = 1
                    /\ \E i \in 1..Len(appended[call.group]) :
                           appended[call.group][i] = out[m].msg

\* the step that begins the handling of a message without text and with
\* only sticker images leaves the cache, the partitions and the append log
\* as they are
StickerOnlyStepKeepsStore ==
    (/\ pc[1] = "idle" /\ pc'[1] # "idle"
     /\ call.group \in Groups /\ OnlyStickers /\ call.text = "none")
    => /\ cache' = cache
       /\ disk' = disk
       /\ appended' = appended

\* C30: an image classified as a sticker contributes nothing to the store: a
\* message of sticker images alone gives no record, no match and no reminder
\* and leaves the store unchanged; a message with text and only sticker
\* images is recorded with its text alone (if the text passes the filters
\* every text passes), has_image = false and no image fingerprint
StickersContributeNothing ==
    /\ [](\A m \in Msgs : StickersLeaveNothing(m))
    /\ [][StickerOnlyStepKeepsStore]_vars

\* a message with text and two stickers is Resolved with a record without
\* image in the append log
StickersContributeNothingWitness ==
    /\ call.group \in Groups /\ call.text = "normal"
    /\ call.images = <<"sticker", "sticker">>
    /\ Resolved(1)
    /\ ~out[1].msg.has_image /\ out[1].msg.image_hash = <<>>
    /\ CountId(appended[call.group], 1) = 1

EvictedByRetention(m) ==
    LET entry == cache[out[m].group]
    IN /\ CountId(entry.messages, m) = 0
       /\ entry.present
       /\ DateStr(entry.last_load) # DateStr(out[m].msg.timestamp)
       /\ out[m].msg.timestamp <= Cutoff(entry.last_load)

\* C32: however the pipelines of a conversation interleave at their external
\* calls, also across a day rollover and its eviction, the record of every
\* message that reached Resolved is in the conversation's cached list exactly
\* once, unless retention eviction has removed it: no append is lost and none
\* is made twice
NoAppendLostOrDoubled ==
    \A m \in Msgs :
        Resolved(m) =>
            \/ /\ CountId(cache[out[m].group].messages, m) = 1
               /\ \E i \in 1..Len(cache[out[m].group].messages) :
                      cache[out[m].group].messages[i] = out[m].msg
            \/ EvictedByRetention(m)

\* two pipelines of one conversation were interleaved across a day rollover:
\* the message received first made its record before the rollover and was the
\* last to append, after the other message's load had evicted the history;
\* both records are in the cached list once
NoAppendLostOrDoubledWitness ==
    \E g \in Groups :
        /\ Resolved(1) /\ Resolved(2)
        /\ out[1].group = g /\ out[2].group = g
        /\ DateStr(out[1].msg.timestamp) # DateStr(out[2].msg.timestamp)
        /\ cache[g].messages = <<out[2].msg, out[1].msg>>
        /\ appended[g] = History \o <<out[2].msg, out[1].msg>>

\* every record of partition d of dsk is in partition d of after
PartitionKept(dsk, after, d) ==
    /\ d \in DOMAIN after
    /\ \A i \in 1..Len(dsk[d]) : \E j \in 1..Len(after[d]) : after[d][j] = dsk[d][i]

\* a step of _append_message or _flush_cache on a conversation that has a
\* cache entry (the process loaded it, and no erase took it away)
RewriteStep ==
    /\ ops' # ops
    /\ last'.op \in {"append", "flush"}
    /\ cache[last'.group].present

\* C33: durable rewrites are monotone: with a retention of one day or more
\* and without erase, an append or flush that rewrites a day partition
\* leaves in it every record the partition held before
RewritesAreMonotone ==
    [][RewriteStep =>
          \A d \in DOMAIN disk[last'.group] :
              PartitionKept(disk[last'.group], disk'[last'.group], d)]_vars

\* the ids of the records of a run of the batch specification
BatchRecordIds == (1 - 2 * BatchSize)..MaxOps
\* the last record of each history a run starts with
LastOfDayIds == {1 - BatchSize, 1 - 2 * BatchSize}

\* the record with this id was appended to the cache of g
InLog(g, id) == \E i \in 1..Len(appended[g]) : appended[g][i].id = id

\* the appended record with this id is in the partition of its calendar day
PersistedId(g, id) ==
    \E i \in 1..Len(appended[g]) :
        /\ appended[g][i].id = id
        /\ DateStr(appended[g][i].timestamp) \in DOMAIN disk[g]
        /\ \E j \in 1..Len(disk[g][DateStr(appended[g][i].timestamp)]) :
               JsonLoadAll(disk[g][DateStr(appended[g][i].timestamp)])[j] = appended[g][i]

\* the record was appended on an earlier calendar day than today, and no
\* suspended task still holds a clock reading
OvertakenByRollover(g, id) ==
    /\ held[g] = {}
    /\ \E i \in 1..Len(appended[g]) :
           /\ appended[g][i].id = id
           /\ DateStr(appended[g][i].timestamp) < DateStr(now)

NeverPersistedLater ==
    [][\A g \in Groups : \A id \in BatchRecordIds :
          (OvertakenByRollover(g, id) /\ ~PersistedId(g, id)) => ~PersistedId(g, id)']_vars

\* the calendar days of which the directory of g holds a partition,
\* compressed or not
PartitionDays(g) == (DOMAIN disk[g]) \cup (DOMAIN files[g].plain)

\* a step of the store other than erase
NonEraseStep == ops' # ops /\ last'.op # "erase"

\* C35: retention eviction touches the cache only: load, append and flush
\* never delete a day partition, so the set of days with a partition only
\* grows until erase runs, also for days behind the retention horizon
PartitionsOnlyGrow ==
    [][NonEraseStep => \A g \in Groups : PartitionDays(g) \subseteq PartitionDays(g)']_vars

\* a load after a day rollover has evicted every cached record of a day that
\* lies behind the retention horizon, and the day's partition is still there
PartitionsOnlyGrowWitness ==
    \E g \in Groups :
        /\ last.op = "load" /\ last.group = g /\ last.before.present
        /\ last.before.messages # <<>> /\ cache[g].messages = <<>>
        /\ \E d \in PartitionDays(g) : d < DateStr(Cutoff(now))

\* the calendar day of every record of messages lies between the day of t
\* minus the retention days and the day of t
WithinRetentionDays(messages, t) ==
    \A i \in 1..Len(messages) :
        /\ DateStr(messages[i].timestamp) >= DateStr(t) - data_retention_days
        /\ DateStr(messages[i].timestamp) <= DateStr(t)

\* C36: every record of a list that _load_messages returns has a timestamp
\* whose calendar day lies between today minus the retention days and today,
\* whether the load read the directory, hit the cache on the same day or was
\* the first after a rollover (no record carries a timestamp in the future)
LoadReturnsRetainedDays ==
    last.op = "load" => WithinRetentionDays(last.ret, last.at)

\* a step of check_status or clear_data for a sender who is no administrator
\* or for an event that comes from no group conversation
UnauthorisedCommandStep ==
    /\ last' # last
    /\ "event" \in DOMAIN last'
    /\ (~last'.event.is_admin \/ last'.event.group_id = NoGroupId)

\* the replies that say nothing about the records: the two fixed texts of
\* check_status, and no reply at all
CountFreeReplies == {"", "use_in_group", "admin_only"}

\* C37: check_status and clear_data called by a sender who is no
\* administrator, or outside a group conversation, leave the cache, the
\* partitions and the other files as they were and reply with a fixed text
\* (or nothing), which tells nothing about the number of records
UnauthorisedCommandsDoNothing ==
    [][UnauthorisedCommandStep =>
          /\ UNCHANGED <<cache, disk, files, appended>>
          /\ last'.ret = <<>>
          /\ last'.reply \in CountFreeReplies]_vars

\* a refused erase command in a conversation that has cached records and
\* partitions on the disk
UnauthorisedCommandsDoNothingWitness ==
    /\ last.op = "refused"
    /\ last.fn = "clear_data"
    /\ last.group \in Groups
    /\ ~last.event.is_admin
    /\ cache[last.group].present
    /\ Len(cache[last.group].messages) > 0
    /\ DOMAIN disk[last.group] # {}

\* the early returns the blacklist, the length check, the ignore patterns and
\* the command filter take
StoreFreeReasons == {"blocked", "short", "ignore_regex", "command"}

\* what the store, the providers and the conversation get from message m
LeavesNoTrace(m) ==
    /\ out'[m].embed = NoEmbed
    /\ judge_calls'[m] = 0
    /\ reminders'[m] = 0
    /\ \A g \in Groups : CountId(appended'[g], m) = 0

\* on_group_message returns for message m at one of these filters
FilteringStep(m) ==
    /\ pc[m] = "idle"
    /\ pc'[m] = "filtered"
    /\ out'[m].path \in StoreFreeReasons

\* C38: a message of a blacklisted conversation, a message without image
\* whose text is shorter than min_text_length, a message fully matched by an
\* ignore_regex pattern and a message recognised as a command of another
\* plugin are dropped without any access to the store: the step that drops
\* the message loads, evicts, appends and writes nothing, and neither then
\* nor later is there an embedding call, a judgment call or a reminder for it
FilteredTouchesNothing ==
    [][\A m \in Msgs :
          /\ FilteringStep(m) =>
                /\ UNCHANGED <<cache, disk, appended, files, judge_calls, reminders>>
                /\ LeavesNoTrace(m)
          /\ (pc[m] = "filtered" /\ out[m].path \in StoreFreeReasons) =>
                /\ pc'[m] = "filtered"
                /\ LeavesNoTrace(m)]_vars

\* a command of another plugin is dropped in a conversation whose earlier
\* message was recorded and whose cache holds records
FilteredTouchesNothingWitness ==
    /\ pc[2] = "filtered"
    /\ out[2].path = "command"
    /\ Resolved(1)
    /\ out[2].group = out[1].group
    /\ Len(cache[out[2].group].messages) > 0

====
